---- MODULE Spec2Model ----
(***************************************************************************)
(* A model of pyedifice's state-update transactions and tree               *)
(* reconciliation:                                                         *)
(*   - Component.render_changes / __getattribute__ / __setattr__ /         *)
(*     set_state / should_update        (src/edifice/component.py)         *)
(*   - _ChangeManager / _storage_manager (src/edifice/engine.py)           *)
(*   - App._render and its helpers, _RenderContext, _QtTree                *)
(*                                        (src/edifice/engine.py)          *)
(*                                                                         *)
(*   - use_state, use_effect, use_async  (src/edifice/hooks.py)            *)
(*                                                                         *)
(* The specifications share the module, one per subsystem:                 *)
(*   ScopeSpec  : one component, its attributes, render_changes scopes     *)
(*   StoreSpec  : a _storage_manager block over plain objects              *)
(*   Spec       : an App, its component tree and reconciliation passes     *)
(*   SwapSpec   : the App while source files are reloaded                  *)
(*   NestSpec   : the calls of _request_rerender in progress               *)
(*   UpdateSpec : one call of the default should_update                    *)
(*   HookSpec   : one component function and its hooks                     *)
(* A raised exception is an instance of Python's Exception class, the      *)
(* class every handler of the modelled code catches.                       *)
(***************************************************************************)
EXTENDS Integers, Sequences, FiniteSets, TLC

VARIABLES
    \* ---- ScopeSpec: one Component with a mock controller (src/test.py)
    attrs,        \* the stored instance attributes (super().__getattribute__)
    ctx,          \* _render_changes_context: None, or the ordered pending dict
    ignored,      \* _ignored_variables
    scopes,       \* the render_changes generators suspended at their yield
    lastOp,       \* what the last operation did (its outcome, as the caller sees it)
    \* ---- StoreSpec: _storage_manager over plain objects
    store,        \* store[o][k]: attribute k of object o (NoAttr when it has none)
    changes,      \* _ChangeManager.changes of the open block
    block,        \* position of the with-block and what it started from
    \* ---- Spec: an App and its component tree
    comp,         \* the component objects, by identity
    c2r,          \* App._component_to_rendering
    c2q,          \* App._component_to_qt_rendering
    pass,         \* what the last call of App._request_rerender did
    passes,       \* how many calls there have been
    namespace,    \* the class each class name is bound to (source reloading)
    queue,        \* App._class_rerender_queue
    \* ---- NestSpec: the calls of App._request_rerender in progress
    stack,        \* the activations of _request_rerender, the innermost first
    \* ---- UpdateSpec: one call of the default Component.should_update
    call,         \* the component, the arguments and, once returned, the result
    \* ---- HookSpec: one component function and its render context
    hook          \* the hook slots of the component and what its hooks did

scopeVars == <<attrs, ctx, ignored, scopes, lastOp>>
storeVars == <<store, changes, block>>
\* what an operation of one subsystem leaves alone
appVars == <<comp, c2r, c2q, pass, passes>>
swapVars == <<namespace, queue>>
callVars == <<stack>>
pureVars == <<call, hook>>
notScope == <<storeVars, appVars, swapVars, callVars, pureVars>>
notStore == <<scopeVars, appVars, swapVars, callVars, pureVars>>
notApp == <<scopeVars, storeVars, swapVars, callVars, pureVars>>
notSwap == <<scopeVars, storeVars, callVars, pureVars>>
vars == <<attrs, ctx, ignored, scopes, lastOp, store, changes, block,
          comp, c2r, c2q, pass, passes, namespace, queue, stack, call, hook>>
\* the value of the variables of Spec where no App has been constructed
NoApp == <<>>

(***************************************************************************)
(* Values                                                                  *)
(***************************************************************************)
MaxVal == 1
MaxDepth == 2

Vals == 0..MaxVal
Absent == MaxVal + 1         \* the object has no such attribute
NoneVal == MaxVal + 2        \* Python's None
Names == {"foo", "bar"}

NoError == "none"

\* Python dicts keep insertion order: a dict is a sequence of [k, v] entries
\* with distinct keys.
DictKeys(d) == {d[i].k : i \in 1..Len(d)}
DictGet(d, k) == LET i == CHOOSE i \in 1..Len(d) : d[i].k = k IN d[i].v
DictSet(d, k, v) ==
    IF k \in DictKeys(d)
    THEN [i \in 1..Len(d) |-> IF d[i].k = k THEN [k |-> k, v |-> v] ELSE d[i]]
    ELSE Append(d, [k |-> k, v |-> v])

\* The keyword arguments a caller may pass to set_state.
KwargsSet ==
    {d \in UNION {[1..n -> [k : Names, v : Vals]] : n \in 1..Cardinality(Names)} :
        \A i, j \in 1..Len(d) : i # j => d[i].k # d[j].k}

\* The values the variables of a subsystem keep under another subsystem's
\* specification.
\* An attribute of a plain object or of a component in a tree is optional:
\* NoAttr when the object has no such attribute, else Some(value).
NoAttr == <<>>
Some(v) == <<v>>

IdleStore == [o \in {"o1", "o2"} |-> [k \in {"value", "_key"} |-> NoAttr]]
IdleBlock == [open |-> FALSE, result |-> "none", pre |-> IdleStore,
              touched |-> {}, multi |-> {}]

(***************************************************************************)
(* Component.__getattribute__ / __setattr__                                *)
(***************************************************************************)
NoCtx == [isNone |-> TRUE, d |-> <<>>]
OpenCtx(d) == [isNone |-> FALSE, d |-> d]

\* Mutant: a read that never looks at the pending dict.
getattribute_real(at, cx, ig, k) == at[k]

\* __getattribute__(k): the pending value when a scope is active and k was
\* assigned in it and is not ignored, else the stored attribute
\* (Absent stands for the AttributeError of a missing attribute).
getattribute(at, cx, ig, k) ==
    IF ~cx.isNone /\ k \in DictKeys(cx.d) /\ k \notin ig
    THEN DictGet(cx.d, k)
    ELSE at[k]

hasattr(at, cx, ig, k) == getattribute(at, cx, ig, k) # Absent

\* Mutant: every write goes to the stored attribute.
setattr_direct(at, cx, ig, k, v) == [attrs |-> [at EXCEPT ![k] = v], ctx |-> cx]

\* Mutant: while a scope is active every write is pending, ignored or not.
setattr_pending(at, cx, ig, k, v) ==
    IF ~cx.isNone
    THEN [attrs |-> at, ctx |-> OpenCtx(DictSet(cx.d, k, v))]
    ELSE [attrs |-> [at EXCEPT ![k] = v], ctx |-> cx]

\* __setattr__(k, v): into the pending dict while a scope is active and k is
\* not ignored, else onto the stored attribute.
setattr(at, cx, ig, k, v) ==
    IF ~cx.isNone /\ k \notin ig
    THEN [attrs |-> at, ctx |-> OpenCtx(DictSet(cx.d, k, v))]
    ELSE [attrs |-> [at EXCEPT ![k] = v], ctx |-> cx]

(***************************************************************************)
(* Component.should_update (state part; values are plain numbers)          *)
(***************************************************************************)
RECURSIVE should_update_state(_, _, _, _)
should_update_state(at, cx, ig, newstate) ==
    IF newstate = <<>> THEN "False"
    ELSE LET old_obj == getattribute(at, cx, ig, Head(newstate).k)
         IN IF old_obj = Absent THEN "AttributeError"
            ELSE IF old_obj # Head(newstate).v THEN "True"
            ELSE should_update_state(at, cx, ig, Tail(newstate))

(***************************************************************************)
(* Component.set_state                                                     *)
(***************************************************************************)
\* Mutant: the loop without the hasattr check.
RECURSIVE set_state_loop_nocheck(_, _, _, _, _)
set_state_loop_nocheck(at, cx, ig, kwargs, old_vals) ==
    IF kwargs = <<>> THEN [attrs |-> at, old_vals |-> old_vals, raised |-> NoError]
    ELSE set_state_loop_nocheck([at EXCEPT ![Head(kwargs).k] = Head(kwargs).v],
                                cx, ig, Tail(kwargs),
                                DictSet(old_vals, Head(kwargs).k, at[Head(kwargs).k]))

\* The loop `for s in kwargs`: returns the attributes after the loop, the
\* old values it recorded and the error that stopped it.
RECURSIVE set_state_loop(_, _, _, _, _)
set_state_loop(at, cx, ig, kwargs, old_vals) ==
    IF kwargs = <<>> THEN [attrs |-> at, old_vals |-> old_vals, raised |-> NoError]
    ELSE LET s == Head(kwargs).k IN
         IF ~hasattr(at, cx, ig, s)
         THEN [attrs |-> at, old_vals |-> old_vals, raised |-> "KeyError"]
         ELSE IF at[s] = Absent
         THEN [attrs |-> at, old_vals |-> old_vals, raised |-> "AttributeError"]
         ELSE set_state_loop([at EXCEPT ![s] = Head(kwargs).v], cx, ig,
                             Tail(kwargs), DictSet(old_vals, s, at[s]))

\* The except branch: every recorded old value is written back.
RECURSIVE set_state_restore(_, _)
set_state_restore(at, old_vals) ==
    IF old_vals = <<>> THEN at
    ELSE set_state_restore([at EXCEPT ![Head(old_vals).k] = Head(old_vals).v],
                           Tail(old_vals))

\* Mutant: the except branch re-raises without writing the old values back.
set_state_no_restore(at, old_vals) == at

set_state_unwind(at, old_vals) == set_state_restore(at, old_vals)

\* set_state(**kwargs) with a controller whose _request_rerender returns
\* (ctrlOK) or raises.  Result: the attributes afterwards, the error that
\* reaches the caller, and the re-render requests made (how many, with what).
\* Mutant: should_update is evaluated after the new values are written.
set_state_late_check(at, cx, ig, kwargs, ctrlOK) ==
    LET loop == set_state_loop(at, cx, ig, kwargs, <<>>)
        upd == should_update_state(loop.attrs, cx, ig, kwargs)
    IN  IF loop.raised # NoError
        THEN [attrs |-> set_state_unwind(loop.attrs, loop.old_vals),
              raised |-> loop.raised, nreq |-> 0, reqArg |-> <<>>]
        ELSE IF upd # "True"
        THEN [attrs |-> loop.attrs, raised |-> NoError, nreq |-> 0, reqArg |-> <<>>]
        ELSE IF ctrlOK
        THEN [attrs |-> loop.attrs, raised |-> NoError, nreq |-> 1, reqArg |-> kwargs]
        ELSE [attrs |-> set_state_unwind(loop.attrs, loop.old_vals),
              raised |-> "ControllerError", nreq |-> 1, reqArg |-> kwargs]

set_state(at, cx, ig, kwargs, ctrlOK) ==
    LET upd == should_update_state(at, cx, ig, kwargs)
        loop == set_state_loop(at, cx, ig, kwargs, <<>>)
    IN  IF upd = "AttributeError"
        THEN [attrs |-> at, raised |-> "AttributeError", nreq |-> 0, reqArg |-> <<>>]
        ELSE IF loop.raised # NoError
        THEN [attrs |-> set_state_unwind(loop.attrs, loop.old_vals),
              raised |-> loop.raised, nreq |-> 0, reqArg |-> <<>>]
        ELSE IF upd = "False"
        THEN [attrs |-> loop.attrs, raised |-> NoError, nreq |-> 0, reqArg |-> <<>>]
        ELSE IF ctrlOK
        THEN [attrs |-> loop.attrs, raised |-> NoError, nreq |-> 1, reqArg |-> kwargs]
        ELSE [attrs |-> set_state_unwind(loop.attrs, loop.old_vals),
              raised |-> "ControllerError", nreq |-> 1, reqArg |-> kwargs]

(***************************************************************************)
(* Component.render_changes: the scope and the operations on a component   *)
(***************************************************************************)
Unset == MaxVal + 3          \* no value assigned
NoneAssigned == [k \in Names |-> Unset]

\* One suspended render_changes generator: its local `entered`, its argument
\* ignored_variables, and (for stating properties) the stored attributes at
\* entry and the last value assigned to each name while it was open.
Frame(entered, ign, at) ==
    [entered |-> entered, ign |-> ign, pre |-> at, last |-> NoneAssigned]

\* The record of an operation: op, the error that reached the caller, the
\* re-render requests it made (nreq, reqArg), the set_state calls it made
\* (calls, kwargs), whether the controller was working (ctrlOK), the stored
\* attributes before the operation (before) and before the scope it closes
\* (pre), the values assigned in that scope (last), the ignored set in
\* force (ign) and the nesting depth of the scope.
Op(op, raised, nreq, reqArg, calls, kwargs, ctrlOK, before, pre, last, ign, depth) ==
    [op |-> op, raised |-> raised, nreq |-> nreq, reqArg |-> reqArg,
     calls |-> calls, kwargs |-> kwargs, ctrlOK |-> ctrlOK, before |-> before,
     pre |-> pre, last |-> last, ign |-> ign, depth |-> depth]

\* with self.render_changes(ign): up to the yield.
render_changes_enter(ign) ==
    /\ Len(scopes) < MaxDepth
    /\ IF ctx.isNone
       THEN /\ ctx' = OpenCtx(<<>>)
            /\ ignored' = ign
            /\ scopes' = Append(scopes, Frame(TRUE, ign, attrs))
       ELSE /\ UNCHANGED <<ctx, ignored>>
            /\ scopes' = Append(scopes, Frame(FALSE, ign, attrs))
    /\ lastOp' = Op("enter", NoError, 0, <<>>, 0, <<>>, TRUE, NoneAssigned, NoneAssigned,
                    NoneAssigned,
                    ignored', Len(scopes) + 1)
    /\ UNCHANGED attrs
    /\ UNCHANGED notScope

\* self.k = v, inside or outside a scope.
SetAttr(k, v) ==
    LET r == setattr(attrs, ctx, ignored, k, v) IN
    /\ attrs' = r.attrs
    /\ ctx' = r.ctx
    /\ scopes' = [i \in 1..Len(scopes) |->
                     [scopes[i] EXCEPT !.last = [@ EXCEPT ![k] = v]]]
    /\ lastOp' = Op("setattr", NoError, 0, <<>>, 0, <<>>, TRUE, NoneAssigned, NoneAssigned,
                    NoneAssigned,
                    ignored, Len(scopes))
    /\ UNCHANGED ignored
    /\ UNCHANGED notScope

\* Mutant: the finally clause commits whether or not the body raised.
render_changes_finally_always(top, exception_raised, ctrlOK) ==
    IF top.entered
    THEN LET r == set_state(attrs, NoCtx, {}, ctx.d, ctrlOK)
         IN [attrs |-> r.attrs, ctx |-> NoCtx, ignored |-> {},
             raised |-> r.raised, nreq |-> r.nreq, reqArg |-> r.reqArg,
             calls |-> 1, kwargs |-> ctx.d]
    ELSE [attrs |-> attrs, ctx |-> ctx, ignored |-> ignored,
          raised |-> IF exception_raised THEN "BodyError" ELSE NoError,
          nreq |-> 0, reqArg |-> <<>>, calls |-> 0, kwargs |-> <<>>]

\* Mutant: every generator commits or discards, whether it opened the scope
\* or not.
render_changes_finally_each(top, exception_raised, ctrlOK) ==
    IF ~exception_raised
    THEN LET r == set_state(attrs, NoCtx, {}, ctx.d, ctrlOK)
         IN [attrs |-> r.attrs, ctx |-> NoCtx, ignored |-> {},
             raised |-> r.raised, nreq |-> r.nreq, reqArg |-> r.reqArg,
             calls |-> 1, kwargs |-> ctx.d]
    ELSE [attrs |-> attrs, ctx |-> NoCtx, ignored |-> {},
          raised |-> "BodyError", nreq |-> 0, reqArg |-> <<>>,
          calls |-> 0, kwargs |-> <<>>]

\* The except and finally clauses of render_changes for the generator `top`,
\* the body having raised (exception_raised) or not.
render_changes_finally(top, exception_raised, ctrlOK) ==
    IF top.entered
    THEN IF ~exception_raised
         THEN LET r == set_state(attrs, NoCtx, {}, ctx.d, ctrlOK)
              IN [attrs |-> r.attrs, ctx |-> NoCtx, ignored |-> {},
                  raised |-> r.raised, nreq |-> r.nreq, reqArg |-> r.reqArg,
                  calls |-> 1, kwargs |-> ctx.d]
         ELSE [attrs |-> attrs, ctx |-> NoCtx, ignored |-> {},
               raised |-> "BodyError", nreq |-> 0, reqArg |-> <<>>,
               calls |-> 0, kwargs |-> <<>>]
    ELSE [attrs |-> attrs, ctx |-> ctx, ignored |-> ignored,
          raised |-> IF exception_raised THEN "BodyError" ELSE NoError,
          nreq |-> 0, reqArg |-> <<>>, calls |-> 0, kwargs |-> <<>>]

\* The body of the innermost with-block ends normally.
render_changes_exit(ctrlOK) ==
    /\ scopes # <<>>
    /\ LET top == scopes[Len(scopes)]
           r == render_changes_finally(top, FALSE, ctrlOK)
       IN /\ attrs' = r.attrs
          /\ ctx' = r.ctx
          /\ ignored' = r.ignored
          /\ lastOp' = Op("exit", r.raised, r.nreq, r.reqArg, r.calls, r.kwargs,
                          ctrlOK \/ r.nreq = 0, attrs, top.pre, top.last,
                          ignored, Len(scopes))
    /\ scopes' = SubSeq(scopes, 1, Len(scopes) - 1)
    /\ UNCHANGED notScope

\* The body of the innermost with-block raises.
render_changes_raise ==
    /\ scopes # <<>>
    /\ LET top == scopes[Len(scopes)]
           r == render_changes_finally(top, TRUE, TRUE)
       IN /\ attrs' = r.attrs
          /\ ctx' = r.ctx
          /\ ignored' = r.ignored
          /\ lastOp' = Op("raise", r.raised, r.nreq, r.reqArg, r.calls, r.kwargs,
                          TRUE, attrs, top.pre, top.last, ignored, Len(scopes))
    /\ scopes' = SubSeq(scopes, 1, Len(scopes) - 1)
    /\ UNCHANGED notScope

\* self.set_state(**kwargs), called with no scope open.
SetState(kwargs, ctrlOK) ==
    /\ scopes = <<>>
    /\ LET r == set_state(attrs, ctx, ignored, kwargs, ctrlOK)
       IN /\ attrs' = r.attrs
          /\ lastOp' = Op("set_state", r.raised, r.nreq, r.reqArg, 1, kwargs,
                          ctrlOK \/ r.nreq = 0, attrs, attrs, NoneAssigned,
                          ignored, 0)
    /\ UNCHANGED <<ctx, ignored, scopes>>
    /\ UNCHANGED notScope

IdleOp ==
    Op("init", NoError, 0, <<>>, 0, <<>>, TRUE, NoneAssigned, NoneAssigned,
       NoneAssigned, {}, 0)

ScopeInit ==
    /\ attrs \in {f \in [Names -> Vals \cup {Absent}] : f["foo"] # Absent}
    /\ ctx = NoCtx
    /\ ignored = {}
    /\ scopes = <<>>
    /\ lastOp = IdleOp
    /\ store = IdleStore /\ changes = <<>> /\ block = IdleBlock
    /\ comp = NoApp /\ c2r = NoApp /\ c2q = NoApp /\ pass = NoApp /\ passes = 0
    /\ namespace = NoApp /\ queue = NoApp
    /\ stack = <<>>
    /\ call = NoApp
    /\ hook = NoApp

ScopeNext ==
    \/ \E ign \in SUBSET {"bar"} : render_changes_enter(ign)
    \/ \E k \in Names, v \in Vals : SetAttr(k, v)
    \/ \E ctrlOK \in BOOLEAN : render_changes_exit(ctrlOK)
    \/ render_changes_raise
    \/ \E kwargs \in KwargsSet, ctrlOK \in BOOLEAN : SetState(kwargs, ctrlOK)

(***************************************************************************)
(* _ChangeManager and _storage_manager                                     *)
(***************************************************************************)
MaxChanges == 2
Objs == {"o1", "o2"}
Attrs == {"value", "_key"}

\* _ChangeManager.set(obj, key, value): log (obj, key, had, old, new), then
\* setattr.  Works on any store st[obj][key] of optional attributes.
ChangeManager_set(st, log, obj, key, value) ==
    LET had == st[obj][key] # NoAttr
        old_value == IF had THEN st[obj][key][1] ELSE NoneVal
    IN [store |-> [st EXCEPT ![obj][key] = Some(value)],
        changes |-> Append(log, [obj |-> obj, key |-> key, had_key |-> had,
                                 old_value |-> old_value, new_value |-> value])]

\* One step of unwind: restore the old value, or delete the attribute that
\* was not there; when the deletion fails the attribute is set to None.
unwind_one(st, c) ==
    IF c.had_key THEN [st EXCEPT ![c.obj][c.key] = Some(c.old_value)]
    ELSE IF st[c.obj][c.key] # NoAttr THEN [st EXCEPT ![c.obj][c.key] = NoAttr]
    ELSE [st EXCEPT ![c.obj][c.key] = Some(NoneVal)]

\* Mutant: an attribute that did not exist is set to None instead of deleted.
unwind_one_sentinel(st, c) ==
    IF c.had_key THEN [st EXCEPT ![c.obj][c.key] = Some(c.old_value)]
    ELSE [st EXCEPT ![c.obj][c.key] = Some(NoneVal)]

unwind_step(st, c) == unwind_one(st, c)

\* _ChangeManager.unwind(): the log replayed in reverse.
RECURSIVE ChangeManager_unwind(_, _)
ChangeManager_unwind(st, log) ==
    IF log = <<>> THEN st
    ELSE ChangeManager_unwind(unwind_step(st, log[Len(log)]),
                              SubSeq(log, 1, Len(log) - 1))

\* The with-block: open or not, how it ended, the store it started from, the
\* (obj, key) pairs written in it and those written more than once.
Block(open, result, pre, touched, multi) ==
    [open |-> open, result |-> result, pre |-> pre, touched |-> touched,
     multi |-> multi]

\* with _storage_manager() as storage_manager: up to the yield.
storage_manager_enter ==
    /\ ~block.open
    /\ changes' = <<>>
    /\ block' = Block(TRUE, "open", store, {}, {})
    /\ UNCHANGED store
    /\ UNCHANGED notStore

\* storage_manager.set(obj, key, value) in the body of the block.
StorageSet(obj, key, value) ==
    /\ block.open
    /\ Len(changes) < MaxChanges
    /\ LET r == ChangeManager_set(store, changes, obj, key, value)
       IN /\ store' = r.store
          /\ changes' = r.changes
    /\ block' = [block EXCEPT !.touched = @ \cup {<<obj, key>>},
                              !.multi = @ \cup ({<<obj, key>>} \cap block.touched)]
    /\ UNCHANGED notStore

\* The body ends normally: nothing is unwound (the change manager is dropped).
storage_manager_exit ==
    /\ block.open
    /\ block' = [block EXCEPT !.open = FALSE, !.result = "returned"]
    /\ changes' = <<>>
    /\ UNCHANGED store
    /\ UNCHANGED notStore

\* The body raises: unwind, then the exception is re-raised.
storage_manager_raise ==
    /\ block.open
    /\ store' = ChangeManager_unwind(store, changes)
    /\ block' = [block EXCEPT !.open = FALSE, !.result = "raised"]
    /\ changes' = <<>>
    /\ UNCHANGED notStore

StoreInit ==
    /\ store \in [Objs -> [Attrs -> {NoAttr} \cup {Some(v) : v \in Vals}]]
    /\ changes = <<>>
    /\ block = Block(FALSE, "none", store, {}, {})
    /\ attrs = [k \in Names |-> Absent] /\ ctx = NoCtx /\ ignored = {}
    /\ scopes = <<>> /\ lastOp = IdleOp
    /\ comp = NoApp /\ c2r = NoApp /\ c2q = NoApp /\ pass = NoApp /\ passes = 0
    /\ namespace = NoApp /\ queue = NoApp
    /\ stack = <<>>
    /\ call = NoApp
    /\ hook = NoApp

StoreNext ==
    \/ storage_manager_enter
    \/ \E obj \in Objs, key \in Attrs, value \in Vals : StorageSet(obj, key, value)
    \/ storage_manager_exit
    \/ storage_manager_raise

(***************************************************************************)
(* The component tree of an App                                            *)
(*                                                                         *)
(* The modelled application: a RootComponent holding one composite Comp    *)
(* whose render() returns a View called on its kids, the kids built from   *)
(* Comp's state attribute n, a list of (class, key, val) descriptions.     *)
(* A kid is a Label (a leaf) or an Item, a composite with a state          *)
(* attribute s whose render() returns Label(val) when s = 0 and            *)
(* Button(val) otherwise.                                                  *)
(***************************************************************************)
MaxObj == 14
MaxKids == 2
MaxPass == 3

Ids == 1..MaxObj
NoId == 0
RootId == 1
CompId == 2

\* The classes of the application, and those a reloaded source file binds
\* to the names Label and Item: Label2 is a BaseComponent as Label is, Item2
\* a composite with the render() of Item.
BaseClasses == {"Root", "View", "Label", "Button", "Label2"}
IsBase(cls) == cls \in BaseClasses
ItemClasses == {"Item", "Item2"}
ClassNames == {"View", "Label", "Button", "Item", "Abstract"}
Reloaded(name) == name \o "2"
\* A class of a new source whose __init__ has a parameter without default
\* that the class it replaces did not have (the prop "title").
Incompatible(name) == name \o "3"
\* The parameters of cls.__init__ without default (self and the names that
\* begin with "_" left out), and the props an instance of the modelled
\* classes holds.
Required(cls) == IF cls = Incompatible("Item") THEN {"title"} ELSE {}
PropNames == {"val", "children"}

\* props: the prop val and the children entry, which is a list (ck = "list")
\* or, when register_props supplied it, the empty dict (ck = "dict").
Props(val, ck, children) == [val |-> val, ck |-> ck, children |-> children]

\* A component object: its class, the optional attributes _key and _props,
\* and the state attributes n (Comp) and s (Item).
Component(cls, key, props, n) ==
    [cls |-> cls, _key |-> key, _props |-> Some(props), n |-> n, s |-> 0]
Free == [cls |-> "Free", _key |-> NoAttr, _props |-> NoAttr, n |-> <<>>, s |-> 0]

PropsOf(cs, c) == cs[c]._props[1]
ChildrenOf(cs, c) == PropsOf(cs, c).children

\* What Comp.render() can be asked to build.
ExplicitKeys == {"x", "y"}
Desc(cls, key, val) == [cls |-> cls, key |-> key, val |-> val]
Descs ==
    {Desc("Label", Some("x"), v) : v \in Vals} \cup
    {Desc("Label", Some("y"), 0), Desc("Item", Some("x"), 0),
     Desc("Item", Some("y"), 0), Desc("Label", NoAttr, 0),
     Desc("Abstract", NoAttr, 0)}
Layouts ==
    {l \in UNION {[1..k -> Descs] : k \in 0..MaxKids} :
        \A i, j \in 1..Len(l) :
            (i # j /\ l[i].key # NoAttr) => l[i].key # l[j].key}

\* "KEY" + str(i)
PosKey(i) == "KEY" \o <<"0", "1", "2", "3", "4", "5", "6", "7", "8", "9">>[i + 1]

\* _component_to_rendering[c]: missing, a list of children (BaseComponent)
\* or the one sub-render (composite).
NoEntry == [in |-> FALSE, list |-> <<>>, one |-> NoId]
ListEntry(l) == [in |-> TRUE, list |-> l, one |-> NoId]
OneEntry(c) == [in |-> TRUE, list |-> <<>>, one |-> c]
SubComponents(e) == IF e.one # NoId THEN <<e.one>> ELSE e.list

\* _QtTree and _component_to_qt_rendering[c]
QtTree(c, kids) == [component |-> c, children |-> kids]
NoTree == QtTree(NoId, <<>>)
NoQt == [in |-> FALSE, tree |-> NoTree]
InQt(t) == [in |-> TRUE, tree |-> t]

\* _RenderContext.need_rerender
\* Mutant: a component without a mark counts as marked.
need_rerender_unless_clean(dirty, c) == dirty[c] # "False"
need_rerender(dirty, c) == dirty[c] = "True"

\* component._qt_update_commands(children, props, {}): one command, named
\* by the component, stands for the list a widget returns; RootComponent
\* returns the empty list.
qt_update_commands(cs, c) == IF cs[c].cls = "Root" THEN <<>> ELSE <<c>>

\* _QtTree.gen_qt_commands: the children's commands, then the node's own
\* when its component is marked.
RECURSIVE gen_qt_commands(_, _, _), gen_children_commands(_, _, _)
gen_children_commands(cs, trees, dirty) ==
    IF trees = <<>> THEN <<>>
    ELSE gen_qt_commands(cs, Head(trees), dirty)
             \o gen_children_commands(cs, Tail(trees), dirty)
\* Mutant: the node's own commands come before its children's.
gen_qt_commands_own_first(cs, tree, dirty) ==
    IF ~need_rerender(dirty, tree.component)
    THEN gen_children_commands(cs, tree.children, dirty)
    ELSE qt_update_commands(cs, tree.component)
             \o gen_children_commands(cs, tree.children, dirty)
gen_qt_commands(cs, tree, dirty) ==
    IF ~need_rerender(dirty, tree.component)
    THEN gen_children_commands(cs, tree.children, dirty)
    ELSE gen_children_commands(cs, tree.children, dirty)
             \o qt_update_commands(cs, tree.component)

RECURSIVE TreeIds(_)
TreeIds(tree) ==
    {tree.component} \cup UNION {TreeIds(tree.children[i]) : i \in 1..Len(tree.children)}

SeqSet(q) == {q[i] : i \in 1..Len(q)}

\* The objects an object refers to, and the objects still referred to from
\* the app (its root and its two maps): the others are garbage, and their
\* identities may be given to new objects.
Refs(cs, r2, q2, c) ==
    (IF cs[c]._props = NoAttr THEN {} ELSE SeqSet(ChildrenOf(cs, c)))
    \cup SeqSet(SubComponents(r2[c])) \cup (TreeIds(q2[c].tree) \ {NoId})
RECURSIVE Reach(_, _, _, _)
Reach(cs, r2, q2, S) ==
    LET T == S \cup UNION {Refs(cs, r2, q2, c) : c \in S}
    IN IF T = S THEN S ELSE Reach(cs, r2, q2, T)
Live(cs, r2, q2) ==
    Reach(cs, r2, q2, {RootId} \cup {c \in Ids : r2[c].in \/ q2[c].in})
Collect(cs, r2, q2) ==
    LET live == Live(cs, r2, q2) IN [c \in Ids |-> IF c \in live THEN cs[c] ELSE Free]

(***************************************************************************)
(* The state of one pass: the components, the two maps of the App, the     *)
(* _RenderContext (need_qt_command_reissue, the change log of its storage  *)
(* manager), the exception in flight, the value returned by the last call  *)
(* (ret, a _QtTree; new, a component just constructed), and what the pass  *)
(* did: the components it mounted, rendered, found changed or unchanged,   *)
(* and the child lists it reconciled by key.                               *)
(***************************************************************************)
PassState(cs, r2, q2) ==
    [comp |-> cs, c2r |-> r2, c2q |-> q2,
     dirty |-> [c \in Ids |-> "unset"], log |-> <<>>, err |-> NoError,
     ret |-> NoTree, new |-> NoId,
     mounted |-> {}, rendered |-> {}, changed |-> {}, unchanged |-> {},
     keyed |-> <<>>, ns |-> namespace]

Raise(s, e) == [s EXCEPT !.err = e]

\* _RenderContext.set
ctx_stored(s, r) == [s EXCEPT !.comp = r.store, !.log = r.changes]
ctx_set(s, obj, k, v) == ctx_stored(s, ChangeManager_set(s.comp, s.log, obj, k, v))

\* _RenderContext.mark_props_change (newprops always has a children entry
\* here; component_to_new_props and component_to_old_props are never read).
mark_props_change(s, c, newprops) == ctx_set(s, c, "_props", newprops)

\* _RenderContext.mark_qt_rerender
mark_qt_rerender(s, c, need) ==
    [s EXCEPT !.dirty[c] = IF need THEN "True" ELSE "False"]

\* App._attach_keys
RECURSIVE attach_keys_from(_, _, _)
attach_keys_from(s, kids, i) ==
    IF i >= Len(kids) THEN s
    ELSE LET child == kids[i + 1]
         IN attach_keys_from(
                IF s.comp[child]._key = NoAttr
                THEN ctx_set(s, child, "_key", PosKey(i)) ELSE s,
                kids, i + 1)
attach_keys(s, c) == attach_keys_from(s, ChildrenOf(s.comp, c), 0)

\* Component.should_update(newprops, {}) of a component whose props are
\* old: a prop differs by value; a children entry differs when it is of
\* another type or holds other objects (a Component compares by identity).
should_update(old, newprops) ==
    \/ old.val # newprops.val
    \/ old.ck # newprops.ck
    \/ old.children # newprops.children

\* Constructing a component takes the smallest identity not in use.
Construct(s, rec) ==
    LET free == {i \in Ids : s.comp[i].cls = "Free"}
    IN IF free = {} THEN Raise(s, "OutOfIds")
       ELSE LET i == CHOOSE i \in free : \A j \in free : i <= j
            IN [s EXCEPT !.comp[i] = rec, !.new = i]

\* cls(val).set_key(key): register_props supplies children = {}.
RECURSIVE ConstructKids(_, _, _)
ConstructedKid(s, layout, acc) == ConstructKids(s, layout, Append(acc, s.new))
ConstructKid(s, d) ==
    Construct(s, Component(s.ns[d.cls], d.key, Props(d.val, "dict", <<>>), <<>>))
ConstructKids(s, layout, acc) ==
    IF layout = <<>> \/ s.err # NoError THEN [s |-> s, kids |-> acc]
    ELSE ConstructedKid(ConstructKid(s, Head(layout)), Tail(layout), acc)

\* component.render() of a composite: the new sub-component is s.new.
\* Abstract is a subclass of Component that does not override render().
ConstructView(k) ==
    IF k.s.err # NoError THEN k.s
    ELSE Construct(k.s, Component(k.s.ns["View"], NoAttr, Props(0, "list", k.kids), <<>>))
composite_render(s, c) ==
    IF s.comp[c].cls = "Comp"
    THEN ConstructView(ConstructKids(s, s.comp[c].n, <<>>))
    ELSE IF s.comp[c].cls = "Abstract" THEN Raise(s, "NotImplementedError")
    ELSE Construct(s, Component(s.ns[IF s.comp[c].s = 0 THEN "Label" ELSE "Button"],
                                NoAttr, Props(PropsOf(s.comp, c).val, "dict", <<>>), <<>>))

\* key_to_old_child.get(key): the last old child carrying the key, if any.
key_to_old_child_first(cs, old_children, key) ==
    IF old_children = <<>> THEN NoId ELSE Head(old_children)
key_to_old_child(cs, old_children, key) ==
    LET found == {i \in 1..Len(old_children) : cs[old_children[i]]._key = Some(key)}
    IN IF found = {} THEN NoId
       ELSE old_children[CHOOSE i \in found : \A j \in found : j <= i]

(***************************************************************************)
(* App._render and the functions it calls.  Each takes the state of the    *)
(* pass and returns the state after the call; once an exception is in      *)
(* flight (err) every later step is skipped.  A function that returns a    *)
(* list returns it beside the state.                                       *)
(***************************************************************************)
RECURSIVE render(_, _), render_list(_, _, _), update_old_component(_, _, _),
          get_children(_, _, _, _), render_zip(_, _, _, _, _, _)

\* [self._render(child, render_context) for child in kids]
render_list_append(s, kids, acc) == render_list(s, kids, Append(acc, s.ret))
render_list(s, kids, acc) ==
    IF kids = <<>> \/ s.err # NoError THEN [s |-> s, trees |-> acc]
    ELSE render_list_append(render(s, Head(kids)), Tail(kids), acc)

\* App._update_old_component, should_update being false: the props are
\* taken, the component is marked clean, its _QtTree is looked up.
return_qt_rendering(s, c) ==
    IF ~s.c2q[c].in THEN Raise(s, "KeyError")
    ELSE [s EXCEPT !.ret = s.c2q[c].tree, !.unchanged = @ \cup {c}]
update_old_component_keep(s, c, newprops) ==
    return_qt_rendering(
        mark_qt_rerender(mark_props_change(s, c, newprops), c, FALSE), c)

\* App._update_old_component, should_update being true: the props are
\* taken, the component is rendered, and what it rendered is marked dirty.
mark_rerendered_clean(s) ==
    IF s.err # NoError THEN s ELSE mark_qt_rerender(s, s.ret.component, FALSE)
mark_rerendered(s) ==
    IF s.err # NoError THEN s ELSE mark_qt_rerender(s, s.ret.component, TRUE)
update_old_component(s, c, newprops) ==
    IF should_update(PropsOf(s.comp, c), newprops)
    THEN mark_rerendered(
             render(mark_props_change([s EXCEPT !.changed = @ \cup {c}], c, newprops), c))
    ELSE update_old_component_keep(s, c, newprops)

\* App._get_child_using_key: child is the component that takes the place,
\* d the old child found under the new child's key.
get_child_never(s, d, newchild) ==
    [s |-> s, child |-> newchild]
get_child_using_key(s, d, newchild) ==
    IF d = NoId \/ s.comp[d].cls # s.comp[newchild].cls
    THEN [s |-> s, child |-> newchild]
    ELSE [s |-> update_old_component(s, d, PropsOf(s.comp, newchild)), child |-> d]

\* [self._get_child_using_key(key_to_old_child, new_child._key, ...)
\*  for new_child in component.children]
get_children_append(g, old_children, rest, acc) ==
    get_children(g.s, old_children, rest, Append(acc, g.child))
get_children(s, old_children, new_children, acc) ==
    IF new_children = <<>> \/ s.err # NoError THEN [s |-> s, children |-> acc]
    ELSE IF s.comp[Head(new_children)]._key = NoAttr
         THEN [s |-> Raise(s, "AttributeError"), children |-> acc]
    ELSE get_children_append(
             get_child_using_key(
                 s, key_to_old_child(s.comp, old_children,
                                     s.comp[Head(new_children)]._key[1]),
                 Head(new_children)),
             old_children, Tail(new_children), acc)

\* for child1, child2 in zip(children, component.children)
render_zip_append(s, children, new_children, i, acc, pnr) ==
    render_zip(s, children, new_children, i, Append(acc, s.ret), pnr)
render_zip(s, children, new_children, i, acc, pnr) ==
    IF i > Len(children) \/ s.err # NoError
    THEN [s |-> s, trees |-> acc, parent_needs_rerendering |-> pnr]
    ELSE IF children[i] # new_children[i]
         THEN IF ~s.c2q[children[i]].in
              THEN [s |-> Raise(s, "KeyError"), trees |-> acc,
                    parent_needs_rerendering |-> pnr]
              ELSE render_zip(s, children, new_children, i + 1,
                              Append(acc, s.c2q[children[i]].tree), pnr)
         ELSE render_zip_append(render(s, children[i]), children, new_children,
                                i + 1, acc, TRUE)

\* the end of the update of a BaseComponent: its mark, its entries in the
\* two maps, its props (the children entry becomes the reconciled list)
render_record(s, c, children, tree, pnr) ==
    [mark_props_change(
         [mark_qt_rerender(s, c, pnr) EXCEPT !.c2r[c] = ListEntry(children),
                                             !.c2q[c] = InQt(tree)],
         c, [PropsOf(s.comp, c) EXCEPT !.ck = "list", !.children = children])
     EXCEPT !.ret = tree]
render_zipped(z, c, children) ==
    IF z.s.err # NoError THEN z.s
    ELSE render_record(z.s, c, children, QtTree(c, z.trees), z.parent_needs_rerendering)
render_finish(s, c, children) ==
    IF s.err # NoError THEN s
    ELSE render_zipped(render_zip(s, children, ChildrenOf(s.comp, c), 1, <<>>, FALSE),
                       c, children)

\* the update of a BaseComponent already in _component_to_rendering:
\* one old child and one new child are matched by class alone ...
single_child(s, c, old_children) ==
    Len(ChildrenOf(s.comp, c)) = 1 /\ Len(old_children) = 1
\* Mutant: the old child is kept only when the keys agree too.
render_update_single_by_key(s, c, old_child, new_child) ==
    IF /\ s.comp[new_child].cls = s.comp[old_child].cls
       /\ s.comp[new_child]._key = s.comp[old_child]._key
    THEN render_finish(update_old_component(s, old_child, PropsOf(s.comp, new_child)),
                       c, <<old_child>>)
    ELSE render_finish(s, c, <<new_child>>)
render_update_single(s, c, old_child, new_child) ==
    IF s.comp[new_child].cls = s.comp[old_child].cls
    THEN render_finish(update_old_component(s, old_child, PropsOf(s.comp, new_child)),
                       c, <<old_child>>)
    ELSE render_finish(s, c, <<new_child>>)
\* ... and otherwise the children are matched by key.  Keyed is the record
\* the pass keeps of it: the old and the new children as they were matched
\* and the list that came out.
Keyed(cs, c, old_children, new_children, children) ==
    [parent |-> c,
     old |-> [i \in 1..Len(old_children) |->
                [id |-> old_children[i], key |-> cs[old_children[i]]._key,
                 cls |-> cs[old_children[i]].cls]],
     new |-> [i \in 1..Len(new_children) |->
                [id |-> new_children[i], key |-> cs[new_children[i]]._key,
                 cls |-> cs[new_children[i]].cls,
                 val |-> PropsOf(cs, new_children[i]).val]],
     children |-> children]
render_got_children(g, c, old_children) ==
    render_finish(
        [g.s EXCEPT !.keyed = Append(@, Keyed(g.s.comp, c, old_children,
                                              ChildrenOf(g.s.comp, c), g.children))],
        c, g.children)
render_update_keyed(s, c, old_children) ==
    IF \E i \in 1..Len(old_children) : s.comp[old_children[i]]._key = NoAttr
    THEN Raise(s, "AttributeError")
    ELSE render_got_children(
             get_children(s, old_children, ChildrenOf(s.comp, c), <<>>), c, old_children)
render_update_attached(s, c, old_children) ==
    IF single_child(s, c, old_children)
    THEN render_update_single(s, c, old_children[1], ChildrenOf(s.comp, c)[1])
    ELSE render_update_keyed(
             IF Len(old_children) = 1 /\ s.comp[old_children[1]]._key = NoAttr
             THEN ctx_set(s, old_children[1], "_key", PosKey(0)) ELSE s,
             c, old_children)
render_update(s, c) ==
    render_update_attached(
        IF Len(s.c2r[c].list) > 1 THEN attach_keys(s, c) ELSE s, c, s.c2r[c].list)

\* the first render of a BaseComponent
render_mounted(r, c) ==
    IF r.s.err # NoError THEN r.s
    ELSE [mark_qt_rerender(r.s, c, TRUE)
             EXCEPT !.c2q[c] = InQt(QtTree(c, r.trees)), !.ret = QtTree(c, r.trees)]
render_mount(s, c) ==
    render_mounted(
        render_list([s EXCEPT !.c2r[c] = ListEntry(ChildrenOf(s.comp, c)),
                              !.mounted = @ \cup {c}],
                    ChildrenOf(s.comp, c), <<>>),
        c)

\* the render of a composite, s.new being what component.render() returned
set_qt_rendering(s, c) ==
    IF s.err # NoError THEN s ELSE [s EXCEPT !.c2q[c] = InQt(s.ret)]
\* Mutant: the old rendering is given its new props and rendered, without
\* the mark _update_old_component puts on what it rendered.
render_sub_component_unmarked(s, c, sub_component, old_rendering) ==
    IF s.err # NoError THEN s
    ELSE IF s.c2r[c].in /\ s.comp[sub_component].cls = s.comp[old_rendering].cls
    THEN set_qt_rendering(
             render(mark_props_change([s EXCEPT !.changed = @ \cup {old_rendering}],
                                      old_rendering, PropsOf(s.comp, sub_component)),
                    old_rendering), c)
    ELSE set_qt_rendering(
             render([s EXCEPT !.c2r[c] = OneEntry(sub_component),
                              !.mounted = @ \cup (IF s.c2r[c].in THEN {} ELSE {c})],
                    sub_component),
             c)
render_sub_component(s, c, sub_component, old_rendering) ==
    IF s.err # NoError THEN s
    ELSE IF s.c2r[c].in /\ s.comp[sub_component].cls = s.comp[old_rendering].cls
    THEN set_qt_rendering(
             update_old_component(s, old_rendering, PropsOf(s.comp, sub_component)), c)
    ELSE set_qt_rendering(
             render([s EXCEPT !.c2r[c] = OneEntry(sub_component),
                              !.mounted = @ \cup (IF s.c2r[c].in THEN {} ELSE {c})],
                    sub_component),
             c)
\* Mutant: what render() returned is mounted whatever its class.
render_rendered_fresh(s, c) ==
    IF s.err # NoError THEN s
    ELSE set_qt_rendering(
             render([s EXCEPT !.c2r[c] = OneEntry(s.new),
                              !.mounted = @ \cup (IF s.c2r[c].in THEN {} ELSE {c})],
                    s.new),
             c)
render_rendered(s, c) == render_sub_component(s, c, s.new, s.c2r[c].one)
render_composite(s, c) == render_rendered(composite_render(s, c), c)

render_base(s, c) ==
    IF ~s.c2r[c].in THEN render_mount(s, c) ELSE render_update(s, c)
render(s, c) ==
    IF s.err # NoError THEN s
    ELSE IF IsBase(s.comp[c].cls)
    THEN render_base(IF Len(ChildrenOf(s.comp, c)) > 1
                     THEN attach_keys([s EXCEPT !.rendered = @ \cup {c}], c)
                     ELSE [s EXCEPT !.rendered = @ \cup {c}], c)
    ELSE render_composite([s EXCEPT !.rendered = @ \cup {c}], c)

\* App._request_rerender: every component is rendered inside one storage
\* manager, which unwinds the attribute writes when a render raises; then
\* the commands of each tree are generated (and executed).
RECURSIVE gen_all_commands(_, _, _)
gen_all_commands(cs, trees, dirty) ==
    IF trees = <<>> THEN <<>>
    ELSE gen_qt_commands(cs, Head(trees), dirty)
             \o gen_all_commands(cs, Tail(trees), dirty)
rendered_all_no_unwind(r) ==
    IF r.s.err # NoError
    THEN [s |-> r.s, trees |-> <<>>, commands |-> <<>>,
          replaced |-> <<>>, deleted |-> <<>>, will_unmount |-> <<>>]
    ELSE [s |-> r.s, trees |-> r.trees,
          commands |-> gen_all_commands(r.s.comp, r.trees, r.s.dirty),
          replaced |-> <<>>, deleted |-> <<>>, will_unmount |-> <<>>]
rendered_all(r) ==
    IF r.s.err # NoError
    THEN [s |-> [r.s EXCEPT !.comp = ChangeManager_unwind(r.s.comp, r.s.log)],
          trees |-> <<>>, commands |-> <<>>,
          replaced |-> <<>>, deleted |-> <<>>, will_unmount |-> <<>>]
    ELSE [s |-> r.s, trees |-> r.trees,
          commands |-> gen_all_commands(r.s.comp, r.trees, r.s.dirty),
          replaced |-> <<>>, deleted |-> <<>>, will_unmount |-> <<>>]
\* Mutant: when a render raised, the commands of the trees recorded for the
\* components are generated all the same.
commands_despite(r, components) ==
    IF r.s.err = NoError THEN rendered_all(r)
    ELSE [rendered_all(r) EXCEPT !.commands =
             gen_all_commands(
                 r.s.comp,
                 [i \in 1..Len(SelectSeq(components, LAMBDA c : r.s.c2q[c].in)) |->
                     r.s.c2q[SelectSeq(components, LAMBDA c : r.s.c2q[c].in)[i]].tree],
                 r.s.dirty)]
request_rerender_despite(cs, r2, q2, components) ==
    commands_despite(render_list(PassState(cs, r2, q2), components, <<>>), components)
request_rerender(cs, r2, q2, components) ==
    rendered_all(render_list(PassState(cs, r2, q2), components, <<>>))

\* What is recorded of the last pass: the call, the exception it raised, the
\* marks and the commands, what the pass did, the components and maps as
\* they were when it began, and of a hot swap the instances it replaced,
\* those it deleted from the maps and the calls of will_unmount; log: the
\* changes the pass's _ChangeManager recorded.
Pass(op, target, r, cs) ==
    [op |-> op, target |-> target, raised |-> r.s.err, dirty |-> r.s.dirty,
     commands |-> r.commands, mounted |-> r.s.mounted, rendered |-> r.s.rendered,
     changed |-> r.s.changed, unchanged |-> r.s.unchanged, keyed |-> r.s.keyed,
     replaced |-> r.replaced, deleted |-> r.deleted, will_unmount |-> r.will_unmount,
     log |-> r.s.log, comp |-> cs, c2r |-> c2r, c2q |-> c2q]
NoPass ==
    [op |-> "none", target |-> NoId, raised |-> NoError,
     dirty |-> [c \in Ids |-> "unset"], commands |-> <<>>, mounted |-> {},
     rendered |-> {}, changed |-> {}, unchanged |-> {}, keyed |-> <<>>,
     replaced |-> <<>>, deleted |-> <<>>, will_unmount |-> <<>>,
     log |-> <<>>, comp |-> [c \in Ids |-> Free], c2r |-> [c \in Ids |-> NoEntry],
     c2q |-> [c \in Ids |-> NoQt]]

\* The pass as one step of the app.  cs: the components as the caller has
\* prepared them; r: what request_rerender returned.  Objects that nothing
\* refers to after the pass are collected.
DoPass(op, target, cs, r) ==
    /\ passes < MaxPass
    /\ r.s.err # "OutOfIds"
    /\ passes' = passes + 1
    /\ comp' = Collect(r.s.comp, r.s.c2r, r.s.c2q)
    /\ c2r' = r.s.c2r
    /\ c2q' = r.s.c2q
    /\ pass' = Pass(op, target, r, cs)

\* App.start: the first pass, then app.exec_().  When the pass raises,
\* start raises and the event loop is never entered.
Start ==
    /\ ~c2r[RootId].in
    /\ DoPass("start", RootId, comp, request_rerender(comp, c2r, c2q, <<RootId>>))
    /\ UNCHANGED notApp
\* the event loop is running: the first pass has rendered the root
Running == c2r[RootId].in /\ c2q[RootId].in

\* Component.set_state, from the call of the controller on: when the pass
\* raised, the old values (old) are written back.
set_state_rerendered(r, c, old) ==
    IF r.s.err # NoError
    THEN [r EXCEPT !.s.comp[c].n = old.n, !.s.comp[c].s = old.s]
    ELSE r

\* comp.set_state(n=layout): should_update compares the old value, the
\* attribute is written, the controller renders the component.
CompSetState(layout) ==
    /\ Running
    /\ c2r[CompId].in
    /\ layout # comp[CompId].n
    /\ DoPass("set_state", CompId, [comp EXCEPT ![CompId].n = layout],
              set_state_rerendered(
                  request_rerender([comp EXCEPT ![CompId].n = layout],
                                   c2r, c2q, <<CompId>>),
                  CompId, comp[CompId]))
    /\ UNCHANGED notApp

\* item.set_state(s=v)
ItemSetState(c, v) ==
    /\ Running
    /\ comp[c].cls \in ItemClasses
    /\ c2r[c].in
    /\ v # comp[c].s
    /\ DoPass("set_state", c, [comp EXCEPT ![c].s = v],
              set_state_rerendered(
                  request_rerender([comp EXCEPT ![c].s = v], c2r, c2q, <<c>>),
                  c, comp[c]))
    /\ UNCHANGED notApp

\* app._request_rerender([c], {}, {}) on a mounted component, nothing
\* having been changed
RequestRerender(c) ==
    /\ Running
    /\ c2r[c].in
    /\ DoPass("rerender", c, comp, request_rerender(comp, c2r, c2q, <<c>>))
    /\ UNCHANGED notApp

(***************************************************************************)
(* Hot swap: App._refresh_by_class and App._delete_component               *)
(***************************************************************************)
MaxReload == 1
Reloadable == {"Label", "Item"}
\* What Comp.render() is asked to build while files are reloaded.
SwapDescs ==
    {Desc("Label", Some("x"), 1), Desc("Label", Some("y"), 0),
     Desc("Item", Some("y"), 0), Desc("Label", NoAttr, 0)}
SwapLayouts == {l \in Layouts : \A i \in 1..Len(l) : l[i] \in SwapDescs}

\* classes: the pairs (old class, new class) of a reloaded file, as a
\* function of the old class; "None" where no new class was found.
IsListEntry(e) == e.in /\ e.one = NoId

\* step 1, traverse(comp, parent): the topmost components of an old class
RECURSIVE traverse(_, _, _, _, _, _), traverse_each(_, _, _, _, _, _)
traverse_each(cs, r2, classes, subs, parent, acc) ==
    IF subs = <<>> \/ acc.err # NoError THEN acc
    ELSE traverse_each(cs, r2, classes, Tail(subs), parent,
                       traverse(cs, r2, classes, Head(subs), parent, acc))
traverse(cs, r2, classes, c, parent, acc) ==
    IF cs[c].cls \in DOMAIN classes
    THEN IF classes[cs[c].cls] = "None" THEN [acc EXCEPT !.err = "ValueError"]
         ELSE [acc EXCEPT !.list = Append(@, [old |-> c, cls |-> classes[cs[c].cls],
                                              parent |-> parent, new |-> NoId])]
    ELSE IF ~r2[c].in THEN [acc EXCEPT !.err = "KeyError"]
    ELSE traverse_each(cs, r2, classes, SubComponents(r2[c]), c, acc)

\* step 2: kwargs holds old_comp.props[k] for every required k, a KeyError
\* being raised again as a ValueError; then new_comp_class(**kwargs), the
\* old props laid over its own, the old key taken.  The state attributes
\* are those __init__ sets.
NewInstance(cs, part) ==
    [cls |-> part.cls, _key |-> cs[part.old]._key,
     _props |-> cs[part.old]._props, n |-> <<>>, s |-> 0]
RECURSIVE construct_new(_, _)
constructed_new(w, i) == construct_new([w EXCEPT !.list[i].new = w.new], i + 1)
construct_new(w, i) ==
    IF i > Len(w.list) \/ w.err # NoError THEN w
    ELSE IF ~(Required(w.list[i].cls) \subseteq PropNames)
    THEN [w EXCEPT !.err = "ValueError"]
    ELSE constructed_new(Construct(w, NewInstance(w.comp, w.list[i])), i)

\* step 3: parent_comp._props["children"][i] = new_comp where the parent's
\* rendering is a list
\* Mutant: the new instance is added at the end of the list.
SpliceAppend(children, old, new) == Append(children, new)
Splice(children, old, new) ==
    [i \in 1..Len(children) |-> IF children[i] = old THEN new ELSE children[i]]
RECURSIVE splice_each(_, _, _)
splice_each(w, r2, i) ==
    IF i > Len(w.list) THEN w
    ELSE splice_each(
             IF IsListEntry(r2[w.list[i].parent])
             THEN [w EXCEPT !.comp[w.list[i].parent]._props[1].children =
                               Splice(@, w.list[i].old, w.list[i].new)]
             ELSE w,
             r2, i + 1)

\* App._delete_component(component, recursive=True): the sub-components
\* first, then the component's own entries.  will_unmount is the list of the
\* calls of Component.will_unmount it makes.
RECURSIVE delete_component(_, _), delete_each(_, _)
delete_each(m, subs) ==
    IF subs = <<>> \/ m.err # NoError THEN m
    ELSE delete_each(delete_component(m, Head(subs)), Tail(subs))
delete_node(m, c) ==
    IF m.err # NoError THEN m
    ELSE IF ~m.c2r[c].in THEN [m EXCEPT !.err = "KeyError"]
    ELSE IF ~m.c2q[c].in THEN [m EXCEPT !.c2r[c] = NoEntry, !.err = "KeyError"]
    ELSE [m EXCEPT !.c2r[c] = NoEntry, !.c2q[c] = NoQt, !.deleted = Append(@, c)]
delete_component(m, c) ==
    IF m.err # NoError THEN m
    ELSE IF ~m.c2r[c].in THEN [m EXCEPT !.err = "KeyError"]
    ELSE delete_node(delete_each(m, SubComponents(m.c2r[c])), c)

\* App._refresh_by_class, step after step; what it returns has the form of
\* what request_rerender returns.
Parents(list) == [i \in 1..Len(list) |-> list[i].parent]
\* Mutant: the parents are deleted, not the old instances.
OldsParents(list) == [i \in 1..Len(list) |-> list[i].parent]
Olds(list) == [i \in 1..Len(list) |-> list[i].old]
refresh_failed(cs, r2, q2, e) ==
    [s |-> Raise(PassState(cs, r2, q2), e), trees |-> <<>>, commands |-> <<>>,
     replaced |-> <<>>, deleted |-> <<>>, will_unmount |-> <<>>]
refresh_deleted(list, r, m) ==
    [r EXCEPT !.s.c2r = m.c2r, !.s.c2q = m.c2q, !.s.err = m.err,
              !.replaced = list, !.deleted = m.deleted,
              !.will_unmount = m.will_unmount]
refresh_rendered(list, r) ==
    IF r.s.err # NoError THEN [r EXCEPT !.replaced = list]
    ELSE refresh_deleted(
             list, r,
             delete_each([c2r |-> r.s.c2r, c2q |-> r.s.c2q, err |-> NoError,
                          deleted |-> <<>>, will_unmount |-> <<>>], Olds(list)))
refresh_spliced(r2, q2, w) ==
    refresh_rendered(w.list, request_rerender(w.comp, r2, q2, Parents(w.list)))
\* Mutant: each new instance is put in its parent's list as soon as it is
\* constructed.
refresh_made_spliced(cs, r2, q2, w) ==
    IF w.err # NoError
    THEN [refresh_failed(cs, r2, q2, w.err) EXCEPT
             !.s.comp = splice_each([w EXCEPT !.list = SelectSeq(@, LAMBDA part : part.new # NoId)],
                                    r2, 1).comp]
    ELSE refresh_spliced(r2, q2, splice_each(w, r2, 1))
refresh_made(cs, r2, q2, w) ==
    IF w.err # NoError THEN refresh_failed(cs, r2, q2, w.err)
    ELSE refresh_spliced(r2, q2, splice_each(w, r2, 1))
refresh_found(cs, r2, q2, acc) ==
    IF acc.err # NoError THEN refresh_failed(cs, r2, q2, acc.err)
    ELSE refresh_made(cs, r2, q2,
                      construct_new([comp |-> cs, err |-> NoError, new |-> NoId,
                                     list |-> acc.list], 1))
refresh_by_class(cs, r2, q2, classes) ==
    refresh_found(cs, r2, q2,
                  traverse(cs, r2, classes, RootId, NoId,
                           [list |-> <<>>, err |-> NoError]))

\* A source file is saved: the name is bound to the class of the new
\* source, and the pair (old class, new class) is queued for the App.
Reload(name) ==
    /\ namespace[name] = name
    /\ Cardinality({other \in ClassNames : namespace[other] # other}) < MaxReload
    /\ namespace' = [namespace EXCEPT ![name] = Reloaded(name)]
    /\ queue' = Append(queue, [cls \in {namespace[name]} |-> Reloaded(name)])
    /\ UNCHANGED <<appVars, notSwap>>

\* A source file is saved that the App cannot take over: the class is no
\* longer found in it (None), or the file defines Label and Item anew and
\* the new Item has a required parameter more.  The names the running
\* render() uses stay bound as they were.
BrokenFiles ==
    {[cls \in {name} |-> "None"] : name \in Reloadable} \cup
    {[cls \in Reloadable |->
         IF cls = "Item" THEN Incompatible(cls) ELSE Reloaded(cls)]}
ReloadBroken(file) ==
    /\ Len(queue) < MaxReload
    /\ \A name \in DOMAIN file : namespace[name] = name
    /\ queue' = Append(queue, file)
    /\ UNCHANGED <<namespace, appVars, notSwap>>

\* EventReceiverWidget.event: the App takes the pairs off the queue and
\* calls _refresh_by_class.
Refresh ==
    /\ queue # <<>>
    /\ Running
    /\ DoPass("refresh", NoId, comp, refresh_by_class(comp, c2r, c2q, Head(queue)))
    /\ queue' = Tail(queue)
    /\ UNCHANGED <<namespace, notSwap>>

\* App.__init__: WindowManager()(Comp()), nothing rendered yet
Init ==
    /\ \E layout \in Layouts :
          comp = [c \in Ids |->
                    IF c = RootId
                    THEN Component("Root", NoAttr, Props(0, "list", <<CompId>>), <<>>)
                    ELSE IF c = CompId
                    THEN Component("Comp", NoAttr, Props(0, "list", <<>>), layout)
                    ELSE Free]
    /\ c2r = [c \in Ids |-> NoEntry]
    /\ c2q = [c \in Ids |-> NoQt]
    /\ pass = NoPass
    /\ passes = 0
    /\ namespace = [name \in ClassNames |-> name]
    /\ queue = <<>>
    /\ attrs = [k \in Names |-> Absent]
    /\ ctx = NoCtx
    /\ ignored = {}
    /\ scopes = <<>>
    /\ lastOp = IdleOp
    /\ store = IdleStore
    /\ changes = <<>>
    /\ block = IdleBlock
    /\ stack = <<>>
    /\ call = NoApp
    /\ hook = NoApp

Next ==
    \/ Start
    \/ \E layout \in Layouts : CompSetState(layout)
    \/ \E c \in Ids, v \in 0..1 : ItemSetState(c, v)
    \/ \E c \in Ids : RequestRerender(c)

Spec ==
    /\ Init
    /\ [][Next]_vars

\* The App while source files are reloaded: set_state, reload and refresh.
SwapNext ==
    \/ Start
    \/ \E layout \in SwapLayouts : CompSetState(layout)
    \/ \E c \in Ids, v \in 0..1 : ItemSetState(c, v)
    \/ \E name \in Reloadable : Reload(name)
    \/ \E file \in BrokenFiles : ReloadBroken(file)
    \/ Refresh

SwapSpec ==
    /\ Init
    /\ [][SwapNext]_vars

(***************************************************************************)
(* Specifications                                                          *)
(***************************************************************************)
ScopeSpec ==
    /\ ScopeInit
    /\ [][ScopeNext]_vars

StoreSpec ==
    /\ StoreInit
    /\ [][StoreNext]_vars

(***************************************************************************)
(* The calls of App._request_rerender in progress.  Component.set_state    *)
(* calls self._controller._request_rerender([self], ...) itself, before it *)
(* returns; _request_rerender renders (calling the render() of the         *)
(* components), then runs the commands it generated (calling what the      *)
(* components put in them), and returns.  A render body and a command are  *)
(* code of the application: they may call set_state.                       *)
(***************************************************************************)
MaxNest == 3

Activation(kwargs) == [phase |-> "render", newstate |-> kwargs]
\* where the control is: in no call, or in the innermost one
Phase == IF stack = <<>> THEN "idle" ELSE Head(stack).phase

\* set_state(**kwargs) called from an event handler ("idle"), from a render
\* body ("render") or from a command ("commands")
SetStateDuring(phase, kwargs) ==
    /\ Phase = phase
    /\ Len(stack) < MaxNest
    /\ LET r == set_state(attrs, ctx, ignored, kwargs, TRUE)
       IN /\ r.raised = NoError
          /\ attrs' = r.attrs
          /\ stack' = IF r.nreq = 1 THEN <<Activation(r.reqArg)>> \o stack
                      ELSE stack
    /\ UNCHANGED <<ctx, ignored, scopes, lastOp, storeVars, appVars, swapVars, pureVars>>

\* the with-block of _request_rerender is left: every _render has returned
RenderReturns ==
    /\ Phase = "render"
    /\ stack' = <<[Head(stack) EXCEPT !.phase = "commands"]>> \o Tail(stack)
    /\ UNCHANGED <<scopeVars, storeVars, appVars, swapVars, pureVars>>

\* every command has been run: _request_rerender returns to its caller
CommandsReturn ==
    /\ Phase = "commands"
    /\ stack' = Tail(stack)
    /\ UNCHANGED <<scopeVars, storeVars, appVars, swapVars, pureVars>>

NestInit ==
    /\ attrs \in [Names -> Vals]
    /\ ctx = NoCtx
    /\ ignored = {}
    /\ scopes = <<>>
    /\ lastOp = IdleOp
    /\ store = IdleStore /\ changes = <<>> /\ block = IdleBlock
    /\ comp = NoApp /\ c2r = NoApp /\ c2q = NoApp /\ pass = NoApp /\ passes = 0
    /\ namespace = NoApp /\ queue = NoApp
    /\ stack = <<>>
    /\ call = NoApp
    /\ hook = NoApp

NestNext ==
    \/ \E phase \in {"idle", "render", "commands"}, kwargs \in KwargsSet :
           SetStateDuring(phase, kwargs)
    \/ RenderReturns
    \/ CommandsReturn

NestSpec ==
    /\ NestInit
    /\ [][NestNext]_vars

(***************************************************************************)
(* The default Component.should_update(newprops, newstate), over values of *)
(* the three kinds it tells apart: components, arrays (np.ndarray,         *)
(* pd.Series, ...) and everything else.  A component value is a childless  *)
(* component with one prop, val; props and state are dicts (sequences of   *)
(* entries [k, v], in the order of the dict).                              *)
(***************************************************************************)
MaxElems == 2

Other(v) == [kind |-> "other", cls |-> "int", v |-> v, el |-> <<>>, props |-> <<>>]
Array(cls, el) == [kind |-> "array", cls |-> cls, v |-> 0, el |-> el, props |-> <<>>]
ComponentValue(cls, val) ==
    [kind |-> "component", cls |-> cls, v |-> 0, el |-> <<>>,
     props |-> <<[k |-> "val", v |-> val]>>]
Others == {Other(v) : v \in Vals}
Arrays ==
    {Array("ndarray", el) : el \in UNION {[1..n -> Vals] : n \in 1..MaxElems}
                                 \ {<<1, 0>>, <<1, 1>>, <<0, 0>>}}
        \cup {Array("Series", <<0>>)}
ComponentValues ==
    {ComponentValue(cls, val) :
        cls \in {"Label", "Button"},
        val \in Others \cup {Array("ndarray", <<0>>), Array("ndarray", <<1>>)}}
Values == Others \cup Arrays \cup ComponentValues

\* np.array_equal(a, b): same shape and same elements
array_equal(a, b) == Len(a) = Len(b) /\ \A i \in 1..Len(a) : a[i] = b[i]

\* Mutant: arrays are compared as every other value is.
RECURSIVE should_update_default(_, _, _, _)
should_update_helper_no_arrays(new_obj, old_obj) ==
    IF old_obj.kind = "component" \/ new_obj.kind = "component"
    THEN IF old_obj.cls # new_obj.cls THEN TRUE
         ELSE should_update_default(old_obj.props, <<>>, new_obj.props, <<>>)
    ELSE old_obj.v # new_obj.v

\* should_update_helper(new_obj, old_obj)
should_update_helper(new_obj, old_obj) ==
    IF old_obj.kind = "component" \/ new_obj.kind = "component"
    THEN IF old_obj.cls # new_obj.cls THEN TRUE
         ELSE should_update_default(old_obj.props, <<>>, new_obj.props, <<>>)
    ELSE IF old_obj.kind = "array" \/ new_obj.kind = "array"
    THEN IF old_obj.cls # new_obj.cls THEN TRUE
         ELSE ~array_equal(old_obj.el, new_obj.el)
    ELSE old_obj.v # new_obj.v

\* the two loops: over newprops._items against self.props[prop], then over
\* newstate.items() against getattr(self, state)
should_update_default(props, state, newprops, newstate) ==
    IF newprops # <<>>
    THEN IF should_update_helper(Head(newprops).v, DictGet(props, Head(newprops).k))
         THEN TRUE
         ELSE should_update_default(props, state, Tail(newprops), newstate)
    ELSE IF newstate # <<>>
    THEN IF should_update_helper(Head(newstate).v, DictGet(state, Head(newstate).k))
         THEN TRUE
         ELSE should_update_default(props, state, newprops, Tail(newstate))
    ELSE FALSE

\* a dict with no entry, or with the entry k
Supplied(k) == {<<>>} \cup {<<[k |-> k, v |-> v]>> : v \in Values}

\* a component with the prop val and the state attribute foo, and a call
\* about to be made with some of the two
UpdateInit ==
    /\ call \in [props : {<<[k |-> "val", v |-> v]>> : v \in Values},
                state : {<<[k |-> "foo", v |-> v]>> : v \in Values},
                newprops : Supplied("val"), newstate : Supplied("foo"),
                returned : {FALSE}, result : {FALSE}]
    /\ attrs = [k \in Names |-> Absent]
    /\ ctx = NoCtx
    /\ ignored = {}
    /\ scopes = <<>>
    /\ lastOp = IdleOp
    /\ store = IdleStore /\ changes = <<>> /\ block = IdleBlock
    /\ comp = NoApp /\ c2r = NoApp /\ c2q = NoApp /\ pass = NoApp /\ passes = 0
    /\ namespace = NoApp /\ queue = NoApp
    /\ stack = <<>>
    /\ hook = NoApp

ShouldUpdate ==
    /\ ~call.returned
    /\ call' = [call EXCEPT !.returned = TRUE,
                            !.result = should_update_default(call.props, call.state,
                                                             call.newprops, call.newstate)]
    /\ UNCHANGED <<scopeVars, storeVars, appVars, swapVars, callVars, hook>>

UpdateNext == ShouldUpdate

UpdateSpec ==
    /\ UpdateInit
    /\ [][UpdateNext]_vars

(***************************************************************************)
(* Hooks: use_state, use_effect and use_async (src/edifice/hooks.py).      *)
(* Each looks the render context up, raises ValueError when there is none, *)
(* and hands the call to the context.  One component function is          *)
(* modelled, whose body calls one hook (body: the hooks it calls, in       *)
(* order; pos: the next to be called) and, having called use_state, may    *)
(* call the setter.  What the render context does with a call is what the  *)
(* documentation of the three hooks says of it.                            *)
(***************************************************************************)
MaxRenders == 4
MaxUpdates == 2
MaxState == 4
Deps == {1, 2}
notHook == <<scopeVars, storeVars, appVars, swapVars, callVars, call>>

\* What a setter is called with: a value, or an updater function; f adds
\* one, g doubles, h raises.
Value(v) == [fn |-> "value", v |-> v]
Updater(fn) == [fn |-> fn, v |-> 0]
Updates == {Value(0), Updater("f"), Updater("g"), Updater("h")}
Raises(u, x) == u.fn = "h"
Apply(u, x) ==
    IF u.fn = "f" THEN (x + 1) % (MaxState + 1)
    ELSE IF u.fn = "g" THEN (2 * x) % (MaxState + 1)
    ELSE u.v

\* What an effect slot did: the setup of render r ran and returned or
\* raised, or the cleanup the setup of render r returned ran in render at
\* (0: at unmount).
Event(what, r, at) == [what |-> what, render |-> r, at |-> at]

\* The queued updates applied in the order of the calls.
\* Mutant: only the last queued update is applied.
apply_updaters_last(x, updaters) ==
    IF updaters = <<>> THEN [state |-> x, raised |-> FALSE]
    ELSE IF Raises(updaters[Len(updaters)], x) THEN [state |-> x, raised |-> TRUE]
    ELSE [state |-> Apply(updaters[Len(updaters)], x), raised |-> FALSE]
RECURSIVE apply_updaters(_, _)
apply_updaters(x, updaters) ==
    IF updaters = <<>> THEN [state |-> x, raised |-> FALSE]
    ELSE IF Raises(Head(updaters), x) THEN [state |-> x, raised |-> TRUE]
    ELSE apply_updaters(Apply(Head(updaters), x), Tail(updaters))

\* context.use_state: the queued updates are applied, all or none, and the
\* state value of this render is returned with the setter.
\* Mutant: the updates applied before the one that raised are kept.
context_use_state_partial(h) ==
    [h EXCEPT !.state = apply_updaters(h.state, h.updaters).state,
              !.updaters = <<>>,
              !.value = Some(apply_updaters(h.state, h.updaters).state),
              !.batch = [from |-> h.state, updates |-> h.updaters,
                         raised |-> apply_updaters(h.state, h.updaters).raised],
              !.pos = @ + 1]
used_state(h, r) ==
    [h EXCEPT !.state = IF r.raised THEN h.state ELSE r.state,
              !.updaters = <<>>,
              !.value = Some(IF r.raised THEN h.state ELSE r.state),
              !.batch = [from |-> h.state, updates |-> h.updaters,
                         raised |-> r.raised],
              !.pos = @ + 1]
context_use_state(h) == used_state(h, apply_updaters(h.state, h.updaters))

\* the cleanup function of the effect slot is called, if there is one
run_cleanup(h, at) ==
    IF h.cleanup = NoAttr THEN h
    ELSE [h EXCEPT !.events = Append(@, Event("cleanup", h.cleanup[1], at)),
                   !.cleanup = NoAttr]

\* context.use_effect(setup, dependencies); ok: setup returns.  When the
\* dependencies are not equal to the old ones the old cleanup runs, then
\* setup; what it returns is kept as the cleanup, and nothing when it raises.
\* Mutant: the cleanup is kept when the dependencies are equal and called
\* again all the same.
effect_setup(h, d, ok) ==
    IF ok
    THEN [h EXCEPT !.dep = Some(d), !.deps = Append(@, d),
                   !.events = Append(@, Event("setup", h.renders, h.renders)),
                   !.cleanup = Some(h.renders), !.pos = @ + 1]
    ELSE [h EXCEPT !.dep = Some(d), !.deps = Append(@, d),
                   !.events = Append(@, Event("raised", h.renders, h.renders)),
                   !.cleanup = NoAttr, !.raised = "SetupError",
                   !.context = FALSE, !.pos = 0]
context_use_effect_always(h, d, ok) == effect_setup(run_cleanup(h, h.renders), d, ok)
context_use_effect(h, d, ok) ==
    IF h.dep # NoAttr /\ h.dep[1] = d
    THEN [h EXCEPT !.deps = Append(@, d), !.pos = @ + 1]
    ELSE effect_setup(run_cleanup(h, h.renders), d, ok)

\* The units of work of the async slot, in the order they were started; one
\* is in flight while it is running or has been cancelled and has not yet
\* ended.
InFlight(units) == {i \in 1..Len(units) : units[i] \in {"running", "cancelling"}}
cancel(units) ==
    [i \in 1..Len(units) |-> IF units[i] = "running" THEN "cancelling" ELSE units[i]]

\* context.use_async(fn_coroutine, dependencies): when the dependencies are
\* not equal to the old ones, the Task in flight is cancelled and the new
\* one is started after it has ended; with none in flight it is started now.
\* Mutant: the new Task is started right after cancel() was called.
context_use_async_at_once(h, d) ==
    IF h.adep # NoAttr /\ h.adep[1] = d THEN [h EXCEPT !.pos = @ + 1]
    ELSE [h EXCEPT !.adep = Some(d), !.units = Append(cancel(@), "running"),
                   !.pos = @ + 1]
context_use_async(h, d) ==
    IF h.adep # NoAttr /\ h.adep[1] = d THEN [h EXCEPT !.pos = @ + 1]
    ELSE IF InFlight(h.units) # {}
    THEN [h EXCEPT !.adep = Some(d), !.units = cancel(@), !.waiting = TRUE,
                   !.pos = @ + 1]
    ELSE [h EXCEPT !.adep = Some(d), !.units = Append(@, "running"), !.pos = @ + 1]

\* hooks.use_state, hooks.use_effect, hooks.use_async: h.context is what
\* get_render_context_maybe() returns.
\* Mutant: the context is used without the test for None.
use_state_unchecked(h) == context_use_state(h)
use_state(h) ==
    IF ~h.context THEN [h EXCEPT !.raised = "ValueError"]
    ELSE context_use_state(h)
use_effect(h, d, ok) ==
    IF ~h.context THEN [h EXCEPT !.raised = "ValueError"]
    ELSE context_use_effect(h, d, ok)
use_async(h, d) ==
    IF ~h.context THEN [h EXCEPT !.raised = "ValueError"]
    ELSE context_use_async(h, d)

\* what the caller of the operation named sees: hook.raised is the exception
Called(name, h) == [h EXCEPT !.called = name]
Calling == [hook EXCEPT !.raised = NoError]
\* the body has come to its call of the hook named
NextHook(name) == hook.pos <= Len(hook.body) /\ hook.body[hook.pos] = name

\* The component function is called: a render context is active until it
\* returns or raises.
BeginRender ==
    /\ ~hook.context
    /\ ~hook.unmounted
    /\ hook.renders < MaxRenders
    /\ hook' = Called("render", [Calling EXCEPT !.context = TRUE, !.pos = 1,
                                                !.renders = @ + 1, !.value = NoAttr])
    /\ UNCHANGED notHook

\* use_state(0) is called: in its place in the body, or outside a render
UseState ==
    /\ hook.context => NextHook("use_state")
    /\ hook' = Called("use_state", use_state(Calling))
    /\ UNCHANGED notHook

\* the setter is called: in the body, or between renders by an event
\* handler or a running Task
Setter(u) ==
    /\ hook.value # NoAttr
    /\ hook.context \/ hook.mounted
    /\ Len(hook.updaters) < MaxUpdates
    /\ hook' = Called("setter", [Calling EXCEPT !.updaters = Append(@, u)])
    /\ UNCHANGED notHook

UseEffect(d, ok) ==
    /\ hook.context => NextHook("use_effect")
    /\ hook' = Called("use_effect", use_effect(Calling, d, ok))
    /\ UNCHANGED notHook

UseAsync(d) ==
    /\ hook.context => NextHook("use_async")
    /\ hook' = Called("use_async", use_async(Calling, d))
    /\ UNCHANGED notHook

\* the component function returns
EndRender ==
    /\ hook.context
    /\ hook.pos > Len(hook.body)
    /\ hook' = Called("rendered", [Calling EXCEPT !.context = FALSE, !.pos = 0,
                                                  !.mounted = TRUE])
    /\ UNCHANGED notHook

\* A Task ends: a running one completes; a cancelled one ends at its next
\* await, and the Task that waited for it is started.
TaskEnds(i) ==
    /\ i \in InFlight(hook.units)
    /\ hook' = Called("task",
           IF hook.units[i] = "running"
           THEN [Calling EXCEPT !.units[i] = "done"]
           ELSE IF hook.waiting
           THEN [Calling EXCEPT !.units = Append([@ EXCEPT ![i] = "cancelled"], "running"),
                                !.waiting = FALSE]
           ELSE [Calling EXCEPT !.units[i] = "cancelled"])
    /\ UNCHANGED notHook

\* The component is unmounted: the cleanup runs, the Task in flight is
\* cancelled and no Task is started after it.
Unmount ==
    /\ ~hook.context
    /\ hook.mounted
    /\ hook' = Called("unmount",
           [run_cleanup(Calling, 0) EXCEPT !.units = cancel(@), !.waiting = FALSE,
                                           !.mounted = FALSE, !.unmounted = TRUE])
    /\ UNCHANGED notHook

HookInit ==
    /\ \E name \in {"use_state", "use_effect", "use_async"} :
        hook =
              [body |-> <<name>>,
               context |-> FALSE, pos |-> 0, mounted |-> FALSE,
               unmounted |-> FALSE, renders |-> 0,
               state |-> 0, updaters |-> <<>>, value |-> NoAttr,
               batch |-> [from |-> 0, updates |-> <<>>, raised |-> FALSE],
               dep |-> NoAttr, deps |-> <<>>, cleanup |-> NoAttr, events |-> <<>>,
               adep |-> NoAttr, units |-> <<>>, waiting |-> FALSE,
               called |-> "none", raised |-> NoError]
    /\ attrs = [k \in Names |-> Absent]
    /\ ctx = NoCtx
    /\ ignored = {}
    /\ scopes = <<>>
    /\ lastOp = IdleOp
    /\ store = IdleStore /\ changes = <<>> /\ block = IdleBlock
    /\ comp = NoApp /\ c2r = NoApp /\ c2q = NoApp /\ pass = NoApp /\ passes = 0
    /\ namespace = NoApp /\ queue = NoApp
    /\ stack = <<>>
    /\ call = NoApp

HookNext ==
    \/ BeginRender
    \/ UseState
    \/ \E u \in Updates : Setter(u)
    \/ \E d \in Deps, ok \in BOOLEAN : UseEffect(d, ok)
    \/ \E d \in Deps : UseAsync(d)
    \/ EndRender
    \/ \E i \in 1..MaxRenders : TaskEnds(i)
    \/ Unmount

HookSpec ==
    /\ HookInit
    /\ [][HookNext]_vars

(***************************************************************************)
(* Properties of render_changes and set_state (checked under ScopeSpec)    *)
(***************************************************************************)
\* The names assigned in the scope just closed that were not ignored.
PendingNames(op) == {k \in Names : op.last[k] # Unset /\ k \notin op.ign}

\* C1: when the body of a render_changes scope raises, after the scope's exit
\* every non-ignored attribute assigned in the scope has the value it had
\* before the scope was entered, no re-render was requested (set_state was
\* not even called), and the body's exception reaches the caller.
C1_RaiseInScopeRollsBack ==
    lastOp.op = "raise" =>
        /\ \A k \in PendingNames(lastOp) : attrs[k] = lastOp.pre[k]
        /\ lastOp.depth = 1 =>
               \A k \in PendingNames(lastOp) :
                   getattribute(attrs, ctx, ignored, k) = lastOp.pre[k]
        /\ lastOp.nreq = 0
        /\ lastOp.calls = 0
        /\ lastOp.raised = "BodyError"

\* C1 witness: an outermost scope that assigned a new value to a non-ignored
\* attribute has been left by an exception.
C1_Witness ==
    /\ lastOp.op = "raise"
    /\ lastOp.depth = 1
    /\ \E k \in PendingNames(lastOp) : lastOp.last[k] # lastOp.pre[k]

\* C2: when the controller's re-render request raises during set_state
\* (called directly or as the commit of a scope), every attribute named in
\* the call is back at its value from before the call (before the scope, for
\* a commit) and the controller's error reaches the caller.
C2_ControllerErrorRollsBack ==
    (lastOp.nreq = 1 /\ ~lastOp.ctrlOK) =>
        /\ lastOp.op \in {"set_state", "exit"}
        /\ \A k \in DictKeys(lastOp.kwargs) :
               attrs[k] = lastOp.pre[k] /\ attrs[k] = lastOp.before[k]
        /\ lastOp.raised = "ControllerError"

\* C2 witness: the commit of a scope that assigned two attributes reached a
\* controller that raised.
C2_Witness ==
    /\ lastOp.op = "exit"
    /\ lastOp.nreq = 1
    /\ ~lastOp.ctrlOK
    /\ Len(lastOp.kwargs) = 2
    /\ \A k \in Names : lastOp.last[k] # lastOp.pre[k]

\* C3: when the body of the outermost scope ends normally, set_state is
\* called exactly once, with the pending dict holding exactly the last value
\* assigned to each (non-ignored) name; at most one re-render is requested,
\* with that same dict; and when the exit raises nothing, every value
\* assigned in the scope is visible on the component.
C3_CommitOnceWithWholeBatch ==
    (lastOp.op = "exit" /\ lastOp.depth = 1) =>
        /\ lastOp.calls = 1
        /\ DictKeys(lastOp.kwargs) = PendingNames(lastOp)
        /\ \A k \in PendingNames(lastOp) : DictGet(lastOp.kwargs, k) = lastOp.last[k]
        /\ lastOp.nreq <= 1
        /\ lastOp.nreq = 1 => lastOp.reqArg = lastOp.kwargs
        /\ lastOp.raised = NoError =>
               \A k \in Names : lastOp.last[k] # Unset =>
                   /\ attrs[k] = lastOp.last[k]
                   /\ getattribute(attrs, ctx, ignored, k) = lastOp.last[k]

\* C3 witness: a scope that assigned new values to both attributes has
\* committed and requested its one re-render.
C3_Witness ==
    /\ lastOp.op = "exit"
    /\ lastOp.depth = 1
    /\ lastOp.raised = NoError
    /\ lastOp.nreq = 1
    /\ Len(lastOp.kwargs) = 2
    /\ \A k \in Names : lastOp.last[k] # lastOp.pre[k]

\* C4: while a scope is active, reading a non-ignored attribute assigned in
\* the scope returns the last value assigned, and the stored attribute still
\* has its value from before the scope.
C4_PendingReadsStoredUntouched ==
    ~ctx.isNone =>
        \A k \in Names :
            (scopes[1].last[k] # Unset /\ k \notin ignored) =>
                /\ getattribute(attrs, ctx, ignored, k) = scopes[1].last[k]
                /\ attrs[k] = scopes[1].pre[k]

\* C4 witness: inside a scope, an attribute holds a pending value that
\* differs from the stored one.
C4_Witness ==
    /\ ~ctx.isNone
    /\ \E k \in Names :
        /\ k \notin ignored
        /\ scopes[1].last[k] # Unset
        /\ scopes[1].last[k] # scopes[1].pre[k]

\* C5: a set_state call naming an attribute the component does not have
\* signals an error, requests no re-render and leaves every attribute,
\* also the valid ones named before it in the call, as it was before the call.
C5_UnknownNameRollsBack ==
    (lastOp.calls = 1 /\ \E k \in DictKeys(lastOp.kwargs) : lastOp.before[k] = Absent) =>
        /\ lastOp.raised \in {"KeyError", "AttributeError"}
        /\ lastOp.nreq = 0
        /\ attrs = lastOp.before

\* C5 witness: set_state(valid=new value, unknown=...) has raised KeyError
\* after the loop had already applied the valid name.
C5_Witness ==
    /\ lastOp.op = "set_state"
    /\ Len(lastOp.kwargs) = 2
    /\ lastOp.before[lastOp.kwargs[1].k] # Absent
    /\ lastOp.before[lastOp.kwargs[1].k] # lastOp.kwargs[1].v
    /\ lastOp.before[lastOp.kwargs[2].k] = Absent
    /\ lastOp.raised = "KeyError"

(***************************************************************************)
(* Properties of _storage_manager (checked under StoreSpec)                *)
(***************************************************************************)
\* C6: when the body of a _storage_manager block raises after any sequence
\* of set calls, every (obj, key) has its value from before the block, a
\* key the object did not have is gone again (not left holding None), also
\* when it was written several times, and the exception is re-raised.
C6_UnwindRestoresStore ==
    block.result = "raised" =>
        /\ \A o \in Objs, k \in Attrs : store[o][k] = block.pre[o][k]
        /\ ~block.open

\* C6 witness: a block that wrote twice to an attribute its object did not
\* have has raised.
C6_Witness ==
    /\ block.result = "raised"
    /\ \E p \in block.multi : block.pre[p[1]][p[2]] = NoAttr

(***************************************************************************)
(* Properties of reconciliation (checked under Spec)                       *)
(***************************************************************************)
PassDone == pass.op # "none" /\ pass.raised = NoError

\* The old children of a keyed reconciliation that have the key and the
\* class of a new child.
SameKeyAndClass(k, nw) ==
    {i \in 1..Len(k.old) : k.old[i].key = nw.key /\ k.old[i].cls = nw.cls}
OldInstances(k) == {k.old[i].id : i \in 1..Len(k.old)}

\* C7: when a parent's new child list is reconciled by key, a new child is
\* replaced by an old instance exactly when an old child has its key and
\* its class; then that old instance stands in the parent's reconciled child
\* list and has the new child's props, and otherwise the new child itself
\* stands there, mounted in this pass.
C7_ReuseIffSameKeyAndClass ==
    PassDone =>
        \A n \in 1..Len(pass.keyed) :
            LET k == pass.keyed[n]
            IN /\ Len(k.children) = Len(k.new)
               /\ c2r[k.parent].list = k.children
               /\ \A i \in 1..Len(k.new) :
                    LET nw == k.new[i]
                        match == SameKeyAndClass(k, nw)
                    IN /\ (k.children[i] \in OldInstances(k)) <=> (match # {})
                       /\ match # {} =>
                            /\ \E j \in match : k.children[i] = k.old[j].id
                            /\ PropsOf(comp, k.children[i]).val = nw.val
                       /\ match = {} =>
                            /\ k.children[i] = nw.id
                            /\ nw.id \in pass.mounted
                            /\ c2r[nw.id].in

\* A pass reconciled by key a list in which one new child took an old
\* instance, with a new value of its prop, and another was mounted itself.
C7_Witness ==
    /\ PassDone
    /\ \E n \in 1..Len(pass.keyed) :
          LET k == pass.keyed[n]
          IN /\ \E i \in 1..Len(k.new) :
                   /\ SameKeyAndClass(k, k.new[i]) # {}
                   /\ k.children[i] # k.new[i].id
                   /\ PropsOf(pass.comp, k.children[i]).val # k.new[i].val
                   /\ PropsOf(comp, k.children[i]).val = k.new[i].val
             /\ \E i \in 1..Len(k.new) :
                   /\ SameKeyAndClass(k, k.new[i]) = {}
                   /\ \E j \in 1..Len(k.old) : k.old[j].key = k.new[i].key
                   /\ k.children[i] \in pass.mounted

\* The View that Comp rendered before the last pass, its children then, and
\* the one of them that carried a key.
OldView == pass.c2r[CompId].one
OldSiblings == pass.c2r[OldView].list
OldSibling(key) ==
    CHOOSE o \in SeqSet(OldSiblings) : pass.comp[o]._key = key

\* The last pass re-rendered the parent of at least two siblings with
\* distinct explicit keys, the new children carrying the same keys, each
\* with the class of the old instance of its key, in some order.
PermutationPass ==
    /\ pass.op = "set_state" /\ pass.target = CompId /\ pass.raised = NoError
    /\ Len(OldSiblings) >= 2
    /\ \A i \in 1..Len(OldSiblings) :
          /\ pass.comp[OldSiblings[i]]._key \in {Some(k) : k \in ExplicitKeys}
          /\ \A j \in 1..Len(OldSiblings) :
                i # j => pass.comp[OldSiblings[i]]._key # pass.comp[OldSiblings[j]]._key
    /\ Len(comp[CompId].n) = Len(OldSiblings)
    /\ {comp[CompId].n[i].key : i \in 1..Len(OldSiblings)}
          = {pass.comp[o]._key : o \in SeqSet(OldSiblings)}
    /\ \A i \in 1..Len(OldSiblings) :
          comp[CompId].n[i].cls = pass.comp[OldSibling(comp[CompId].n[i].key)].cls

\* C8: re-rendering the parent of at least two siblings with distinct
\* explicit keys, with the same keys and classes in any order, leaves as the
\* parent's reconciled child list the same old instances in the new order,
\* every state attribute of each unchanged, and mounts no new instance.
C8_PermutationKeepsInstances ==
    PermutationPass =>
        /\ c2r[CompId].one = OldView
        /\ c2r[OldView].list =
              [i \in 1..Len(OldSiblings) |-> OldSibling(comp[CompId].n[i].key)]
        /\ \A o \in SeqSet(OldSiblings) :
              /\ comp[o].s = pass.comp[o].s
              /\ comp[o].n = pass.comp[o].n
        /\ pass.mounted = {}

\* Two keyed siblings, one of them an Item whose state had been set, have
\* changed places.
C8_Witness ==
    /\ PermutationPass
    /\ c2r[OldView].list # OldSiblings
    /\ \E o \in SeqSet(OldSiblings) : pass.comp[o].cls = "Item" /\ pass.comp[o].s = 1

\* The last pass was run on a mounted component with no prop and no state
\* attribute written since the pass before it.
IdlePass == pass.op = "rerender" /\ pass.raised = NoError

\* C9: a pass run again on a mounted tree, no prop or state value having
\* changed since the previous pass, finds should_update false for every
\* component, marks no component dirty and emits no command.
C9_IdlePassEmitsNothing ==
    IdlePass =>
        /\ pass.changed = {}
        /\ \A c \in Ids : pass.dirty[c] # "True"
        /\ pass.commands = <<>>

\* The components a pass dropped: an old child of a rendered parent that is
\* not in the parent's reconciled list, or the old sub-render of a rendered
\* composite that is not its sub-render any more; and those the maps held
\* beneath them before the pass.
Dropped ==
    {d \in Ids : \E p \in pass.rendered :
        /\ pass.c2r[p].in
        /\ d \in SeqSet(SubComponents(pass.c2r[p])) \ SeqSet(SubComponents(c2r[p]))}
RECURSIVE Beneath(_)
Beneath(S) ==
    LET T == S \cup UNION {SeqSet(SubComponents(pass.c2r[d])) : d \in S}
    IN IF T = S THEN S ELSE Beneath(T)

\* C10: after a pass in which an old child is matched by no new child, or a
\* composite's sub-render is replaced, the old instance and every component
\* mapped beneath it are absent from _component_to_rendering and from
\* _component_to_qt_rendering.
C10_DroppedAbsentFromMaps ==
    PassDone =>
        \A d \in Beneath(Dropped) : ~c2r[d].in /\ ~c2q[d].in

\* ---------------------------------------------------------------------
\* Hot swap: what _refresh_by_class and _delete_component leave behind
\* ---------------------------------------------------------------------
RefreshDone == pass.op = "refresh" /\ pass.raised = NoError
Calls(log, c) == Cardinality({i \in 1..Len(log) : log[i] = c})

\* C11: each component removed from the identity maps has its will_unmount
\* hook called exactly once, the components removed by the recursion of
\* _delete_component included.
C11_WillUnmountOncePerDeleted ==
    RefreshDone =>
        \A c \in SeqSet(pass.deleted) : Calls(pass.will_unmount, c) = 1

\* ---------------------------------------------------------------------
\* Calls of _request_rerender in progress (checked under NestSpec)
\* ---------------------------------------------------------------------
\* C12: no two reconciliation passes overlap: at most one call of
\* _request_rerender is in progress at any time, a set_state made from a
\* render body or from a command starting its pass only after the current
\* one has returned.
C12_NoOverlappingPasses == Len(stack) <= 1

\* ---------------------------------------------------------------------
\* A pass that fails (checked under Spec)
\* ---------------------------------------------------------------------
PassFailed ==
    pass.op \in {"start", "set_state", "rerender"} /\ pass.raised # NoError
WasLive == {c \in Ids : pass.comp[c].cls # "Free"}

\* C13: when a render raises during _request_rerender the caller gets the
\* exception, and every component has the props and the key it had before
\* the pass, the positional keys given during the pass being taken away.
C13_FailedPassRestoresPropsAndKeys ==
    PassFailed =>
        \A c \in WasLive :
            /\ comp[c]._props = pass.comp[c]._props
            /\ comp[c]._key = pass.comp[c]._key
\* a pass that wrote a positional key, or new props, before a render raised
C13_Witness ==
    /\ PassFailed
    /\ \E i \in 1..Len(pass.log) :
          /\ pass.log[i].key = "_key" /\ ~pass.log[i].had_key
          /\ pass.log[i].obj \in WasLive
    /\ \E i \in 1..Len(pass.log) :
          /\ pass.log[i].key = "_props"
          /\ Some(pass.log[i].new_value) # pass.comp[pass.log[i].obj]._props

\* ---------------------------------------------------------------------
\* Nested scopes, ignored names, should_update (checked under ScopeSpec)
\* ---------------------------------------------------------------------
ScopeClosed(op) == op.op \in {"exit", "raise"}
\* every name assigned since the outermost scope was entered, unless
\* ignored, is in the pending dict with the last value assigned
PendingHoldsWrites ==
    \A k \in Names :
        (scopes[1].last[k] # Unset /\ k \notin ignored) =>
            /\ k \in DictKeys(ctx.d)
            /\ DictGet(ctx.d, k) = scopes[1].last[k]

\* C14: entering render_changes while a scope is active on the component
\* starts no new scope (the outer pending dict and ignored set stay in
\* force); the writes made in the inner scope go to the outer pending dict;
\* the inner scope's exit calls no set_state and discards nothing; and the
\* one commit (normal end) or discard (exception) is made when the outermost
\* scope is left.
C14_NestedScopeIsTransparent ==
    /\ \A i \in 1..Len(scopes) : scopes[i].entered <=> i = 1
    /\ scopes # <<>> =>
           /\ ~ctx.isNone
           /\ ignored = scopes[1].ign
           /\ PendingHoldsWrites
    /\ (ScopeClosed(lastOp) /\ lastOp.depth > 1) =>
           /\ lastOp.calls = 0
           /\ lastOp.nreq = 0
           /\ lastOp.raised = (IF lastOp.op = "raise" THEN "BodyError" ELSE NoError)
           /\ attrs = lastOp.before
    /\ (ScopeClosed(lastOp) /\ lastOp.depth = 1) =>
           /\ ctx.isNone
           /\ lastOp.calls = (IF lastOp.op = "exit" THEN 1 ELSE 0)
\* an inner scope in which a name that is not ignored was given a new value
\* has ended normally
C14_Witness ==
    /\ lastOp.op = "exit"
    /\ lastOp.depth = 2
    /\ \E k \in Names : lastOp.last[k] # Unset /\ lastOp.last[k] # lastOp.pre[k]
                        /\ k \notin ignored

\* C15: a write, inside a render_changes scope, to an attribute named in
\* the ignored set in force goes to the stored attribute at once, is never
\* in the pending dict (nor in what the commit hands to set_state), and
\* keeps the written value when the scope is left, by an exception too.
C15_IgnoredWriteGoesStraightThrough ==
    /\ scopes # <<>> =>
           \A k \in ignored :
               /\ k \notin DictKeys(ctx.d)
               /\ scopes[1].last[k] # Unset => attrs[k] = scopes[1].last[k]
    /\ (ScopeClosed(lastOp) /\ lastOp.depth = 1) =>
           \A k \in lastOp.ign :
               /\ k \notin DictKeys(lastOp.kwargs)
               /\ lastOp.last[k] # Unset => attrs[k] = lastOp.last[k]
\* a scope in which an ignored attribute was given a new value, and another
\* attribute was assigned too, has been left by an exception
C15_Witness ==
    /\ lastOp.op = "raise"
    /\ lastOp.depth = 1
    /\ \E k \in lastOp.ign : lastOp.last[k] # Unset /\ lastOp.last[k] # lastOp.pre[k]
    /\ \E k \in Names \ lastOp.ign : lastOp.last[k] # Unset

\* the names of the last set_state call whose value differs from the value
\* the component held when the call was made
Differing(op) == {k \in DictKeys(op.kwargs) : DictGet(op.kwargs, k) # op.before[k]}

\* C16: set_state evaluates should_update against the values held before
\* it writes any new value: a call (on attributes the component has) whose
\* values all equal the current ones requests no re-render, and a call with
\* a differing value requests exactly one, with the values of the call,
\* every one of which the component holds when the request has returned.
C16_ShouldUpdateAgainstOldValues ==
    (lastOp.calls = 1 /\ \A k \in DictKeys(lastOp.kwargs) : lastOp.before[k] # Absent) =>
        /\ Differing(lastOp) = {} => (lastOp.nreq = 0 /\ lastOp.raised = NoError)
        /\ Differing(lastOp) # {} =>
               /\ lastOp.nreq = 1
               /\ lastOp.reqArg = lastOp.kwargs
               /\ lastOp.raised = NoError =>
                      \A k \in DictKeys(lastOp.kwargs) :
                          attrs[k] = DictGet(lastOp.kwargs, k)
\* set_state was called with one value equal to the current one and one
\* that differs, and requested its re-render
C16_Witness ==
    /\ lastOp.op = "set_state"
    /\ lastOp.raised = NoError
    /\ lastOp.nreq = 1
    /\ Cardinality(Differing(lastOp)) = 1
    /\ Len(lastOp.kwargs) = 2

\* ---------------------------------------------------------------------
\* The default should_update (checked under UpdateSpec)
\* ---------------------------------------------------------------------
\* When two values differ: components by class, or when the old one's
\* should_update on the new one's props is true; arrays by class or by an
\* element; every other value by inequality.
ValuesDiffer(new_obj, old_obj) ==
    IF "component" \in {old_obj.kind, new_obj.kind}
    THEN \/ old_obj.cls # new_obj.cls
         \/ should_update_default(old_obj.props, <<>>, new_obj.props, <<>>)
    ELSE IF "array" \in {old_obj.kind, new_obj.kind}
    THEN \/ old_obj.cls # new_obj.cls
         \/ Len(old_obj.el) # Len(new_obj.el)
         \/ \E i \in 1..Len(old_obj.el) : old_obj.el[i] # new_obj.el[i]
    ELSE old_obj # new_obj
DifferingEntries(new, old) ==
    {k \in DictKeys(new) : ValuesDiffer(DictGet(new, k), DictGet(old, k))}

\* C17: the default should_update(newprops, newstate) returns True if and
\* only if some supplied prop or state entry differs from the component's
\* current value, and False when every supplied entry is equal.
C17_DefaultShouldUpdate ==
    call.returned =>
        (call.result <=>
            \/ DifferingEntries(call.newprops, call.props) # {}
            \/ DifferingEntries(call.newstate, call.state) # {})
\* a call with an equal component-typed prop and a state array that
\* differs in one element has returned
C17_Witness ==
    /\ call.returned
    /\ call.newprops # <<>> /\ call.newstate # <<>>
    /\ call.newprops[1].v.kind = "component"
    /\ call.newprops[1].v.props[1].v.kind = "array"
    /\ call.newprops = call.props
    /\ call.newstate[1].v.kind = "array" /\ call.state[1].v.kind = "array"
    /\ call.newstate[1].v.cls = call.state[1].v.cls
    /\ Len(call.newstate[1].v.el) = Len(call.state[1].v.el)
    /\ call.newstate # call.state
    /\ call.result

\* ---------------------------------------------------------------------
\* Two keyed siblings returned in swapped order (checked under Spec)
\* ---------------------------------------------------------------------
\* Comp's View had two children of one class with the keys x and y, and
\* the last pass re-rendered Comp, whose render() returned the View with two
\* children of that class carrying the keys in the other order.
KeySwapPass ==
    /\ PermutationPass
    /\ Len(OldSiblings) = 2
    /\ pass.comp[OldSiblings[1]].cls = pass.comp[OldSiblings[2]].cls
    /\ comp[CompId].n[1].key = pass.comp[OldSiblings[2]]._key
    /\ comp[CompId].n[2].key = pass.comp[OldSiblings[1]]._key

\* C18: re-rendering a parent whose two same-class children keyed x, y are
\* returned in the order y, x mounts no component, leaves the two instances
\* (in the new order) with their state, and marks the parent for command
\* reissue in that pass, so that the parent's commands are among those the
\* pass emits.
C18_KeySwapReordersWithoutMount ==
    KeySwapPass =>
        /\ pass.mounted = {}
        /\ c2r[OldView].list = <<OldSiblings[2], OldSiblings[1]>>
        /\ \A o \in SeqSet(OldSiblings) : comp[o].s = pass.comp[o].s
        /\ pass.dirty[OldView] = "True"
        /\ OldView \in SeqSet(pass.commands)
\* two Items keyed x and y, the state of one having been set, were returned
\* in swapped order with unchanged props
C18_Witness ==
    /\ KeySwapPass
    /\ \A o \in SeqSet(OldSiblings) : pass.comp[o].cls = "Item"
    /\ \E o \in SeqSet(OldSiblings) : pass.comp[o].s = 1
    /\ pass.changed = {OldView}

\* ---------------------------------------------------------------------
\* Hot swap: where the new instances stand (checked under SwapSpec)
\* ---------------------------------------------------------------------
\* The replacements of the last hot swap whose parent held a child list.
ListReplacements ==
    {n \in 1..Len(pass.replaced) : IsListEntry(pass.c2r[pass.replaced[n].parent])}
\* the places of a component in a list
Places(list, c) == {i \in 1..Len(list) : list[i] = c}

RECURSIVE BeneathNow(_)
BeneathNow(S) ==
    LET T == S \cup UNION {SeqSet(SubComponents(c2r[d])) : d \in S}
    IN IF T = S THEN S ELSE BeneathNow(T)
\* The components of the tree before the hot swap that were neither
\* replaced nor beneath a replaced one.
Undisturbed ==
    Beneath({RootId}) \ Beneath({pass.replaced[n].old : n \in 1..Len(pass.replaced)})

\* C20: after a hot swap every component that was in the tree before it and
\* is neither a replaced instance nor a descendant of one is still in the
\* tree, the same instance of the same class, is a key of both identity
\* maps, and has its state attributes unchanged.
C20_OtherSubtreesUndisturbed ==
    RefreshDone =>
        \A c \in Undisturbed :
            /\ c \in BeneathNow({RootId})
            /\ c2r[c].in /\ c2q[c].in
            /\ comp[c].cls = pass.comp[c].cls
            /\ comp[c].s = pass.comp[c].s
            /\ comp[c].n = pass.comp[c].n
\* a Label was replaced beside an Item whose state had been set and which
\* renders a Button
C20_Witness ==
    /\ RefreshDone
    /\ pass.replaced # <<>>
    /\ \E c \in Undisturbed : pass.comp[c].cls = "Item" /\ pass.comp[c].s = 1
    /\ \E c \in Undisturbed : pass.comp[c].cls = "Button"

(***************************************************************************)
(* A hot swap that fails                                                   *)
(***************************************************************************)
\* The components traverse() reaches: from the root down the renderings,
\* not beneath a component whose class the file names.
RECURSIVE Reached(_, _)
Reached(classes, S) ==
    LET T == S \cup UNION {SeqSet(SubComponents(c2r[c])) :
                              c \in {d \in S : comp[d].cls \notin DOMAIN classes}}
    IN IF T = S THEN S ELSE Reached(classes, T)
\* The file gives no new class for the class of a component reached, or a
\* new class that requires a prop the component does not have.
SwapFails(classes) ==
    \E c \in Reached(classes, {RootId}) :
        /\ comp[c].cls \in DOMAIN classes
        /\ \/ classes[comp[c].cls] = "None"
           \/ ~(Required(classes[comp[c].cls]) \subseteq PropNames)
RefreshStep == Running /\ queue # <<>> /\ queue' = Tail(queue)

\* C21: when _refresh_by_class is called with a file that gives no new class
\* for an old class found in the tree, or a new class requiring a prop the
\* old instance does not have, it raises ValueError, and the components
\* (their props, keys and children), _component_to_rendering and
\* _component_to_qt_rendering are after the call what they were before it.
C21_FailedSwapChangesNothing ==
    [][(RefreshStep /\ SwapFails(Head(queue))) =>
          /\ pass'.op = "refresh"
          /\ pass'.raised = "ValueError"
          /\ comp' = comp
          /\ c2r' = c2r
          /\ c2q' = c2q]_vars

\* A swap failed at the second instance found, a new instance having been
\* constructed for the first; and a swap failed for want of a new class.
C21_Witness ==
    /\ pass.op = "refresh"
    /\ pass.raised = "ValueError"
    /\ \E c \in Ids : pass.c2r[c].in /\ Len(pass.c2r[c].list) = 2
          /\ pass.comp[pass.c2r[c].list[1]].cls = "Label"
          /\ pass.comp[pass.c2r[c].list[2]].cls = "Item"
    /\ queue = <<>>
    /\ comp = pass.comp

(***************************************************************************)
(* The children entry of the props                                         *)
(***************************************************************************)
\* C22: every component has props with a children entry, and a children
\* entry that was supplied by default (no child having been given) is the
\* empty list: after construction, register_props, __call__ and every pass
\* no component holds the empty dict as its children.
C22_ChildrenDefaultIsEmptyList ==
    \A c \in Ids :
        comp[c].cls # "Free" =>
            /\ comp[c]._props # NoAttr
            /\ PropsOf(comp, c).ck = "list"

(***************************************************************************)
(* Properties of the hooks (checked under HookSpec)                        *)
(***************************************************************************)
HookNames == {"use_state", "use_effect", "use_async"}
\* the step is a call of the hook named, made by the body of the component
HookStep(name) ==
    /\ hook.context
    /\ hook'.called = name
    /\ hook' # hook
NoneRaises(updaters) == \A i \in 1..Len(updaters) : ~Raises(updaters[i], 0)

\* C23: when the setter was called twice with f then g, the value use_state
\* returns in the next render is g(f(old)); the state changes only when
\* use_state is called in a render, which leaves no update queued, and the
\* value use_state returned stays what it is until the render ends, the
\* setter being called or not.
C23_UpdatersApplyInCallOrder ==
    [][/\ (HookStep("use_state") /\ Len(hook.updaters) = 2
              /\ NoneRaises(hook.updaters)) =>
             hook'.value = Some(Apply(hook.updaters[2],
                                      Apply(hook.updaters[1], hook.state)))
       /\ HookStep("use_state") =>
             hook'.updaters = <<>> /\ hook'.state = hook'.value[1]
       /\ hook'.state # hook.state => HookStep("use_state")
       /\ (hook.context /\ hook'.context /\ hook.value # NoAttr) =>
             hook'.value = hook.value]_vars

\* f then g were applied, in an order that matters, and the setter has been
\* called again in the render that saw the result
C23_Witness ==
    /\ hook.context
    /\ hook.batch.updates = <<Updater("f"), Updater("g")>>
    /\ hook.value = Some(Apply(Updater("g"), Apply(Updater("f"), hook.batch.from)))
    /\ hook.value # Some(Apply(Updater("f"), Apply(Updater("g"), hook.batch.from)))
    /\ hook.updaters # <<>>

\* C24: when one of the queued updaters raises as the batch is applied, the
\* whole batch is dropped: the value use_state returns in that render is the
\* state before the batch, and no update stays queued.
C24_RaisingUpdaterDropsBatch ==
    [][(HookStep("use_state") /\ ~NoneRaises(hook.updaters)) =>
          /\ hook'.value = Some(hook.state)
          /\ hook'.state = hook.state
          /\ hook'.updaters = <<>>]_vars

\* the second updater raised, the first having changed the value
C24_Witness ==
    /\ hook.context
    /\ hook.batch.raised
    /\ hook.batch.updates = <<Updater("f"), Updater("h")>>
    /\ Apply(Updater("f"), hook.batch.from) # hook.batch.from
    /\ hook.value = Some(hook.batch.from)

\* The events of the effect slot that are a call of setup, and the renders
\* in which the dependency was new.
SetupEvents ==
    {i \in 1..Len(hook.events) : hook.events[i].what \in {"setup", "raised"}}
CleanupsOf(i) ==
    {j \in 1..Len(hook.events) :
        hook.events[j].what = "cleanup" /\ hook.events[j].render = hook.events[i].render}
ChangedRenders ==
    {r \in 1..Len(hook.deps) : r = 1 \/ hook.deps[r] # hook.deps[r - 1]}
NextSetups(i) == {k \in SetupEvents : k > i}

\* C25: setup is called in the first render and in just the later renders
\* whose dependency is not equal to that of the render before, once in each;
\* the cleanup a setup returned is called once, right before the next call
\* of setup or at unmount, and not before; a setup that raised has no
\* cleanup called.  With dependencies 1, 1, 2, 2 and no setup raising, setup
\* is called in renders 1 and 3 and the first cleanup in render 3.
C25_EffectRunsOnDependencyChange ==
    /\ {hook.events[i].render : i \in SetupEvents} = ChangedRenders
    /\ Cardinality(SetupEvents) = Cardinality(ChangedRenders)
    /\ \A i \in SetupEvents :
          IF hook.events[i].what = "raised" THEN CleanupsOf(i) = {}
          ELSE IF NextSetups(i) # {}
          THEN CleanupsOf(i) = {k - 1 : k \in {k \in NextSetups(i) :
                                                  \A l \in NextSetups(i) : k <= l}}
          ELSE IF hook.unmounted
          THEN CleanupsOf(i) = {Len(hook.events)} /\ hook.events[Len(hook.events)].at = 0
          ELSE CleanupsOf(i) = {}
    /\ (hook.deps = <<1, 1, 2, 2>> /\ ~hook.unmounted
          /\ \A i \in SetupEvents : hook.events[i].what = "setup") =>
             hook.events = <<Event("setup", 1, 1), Event("cleanup", 1, 3),
                             Event("setup", 3, 3)>>

\* the four renders of the example have been made
C25_Witness ==
    /\ hook.deps = <<1, 1, 2, 2>>
    /\ hook.events = <<Event("setup", 1, 1), Event("cleanup", 1, 3),
                       Event("setup", 3, 3)>>

\* C26: of the Tasks of an async slot at most one is in flight (running, or
\* cancelled and not yet ended); when use_async is called with a new
\* dependency, or the component is unmounted, the Task in flight is
\* cancelled; and a Task is started only when every Task before it has
\* completed or has ended after its cancellation.
C26_OneTaskInFlight ==
    [][/\ Cardinality(InFlight(hook'.units)) <= 1
       /\ ((HookStep("use_async") /\ hook'.adep # hook.adep)
              \/ (hook'.unmounted /\ ~hook.unmounted)) =>
             \A i \in InFlight(hook.units) : hook'.units[i] = "cancelling"
       /\ Len(hook'.units) > Len(hook.units) =>
             \A i \in 1..Len(hook.units) : hook'.units[i] \in {"done", "cancelled"}]_vars

\* a Task was cancelled for a new dependency, has ended, and the next runs
C26_Witness ==
    /\ Len(hook.units) = 2
    /\ hook.units[1] = "cancelled"
    /\ hook.units[2] = "running"
    /\ ~hook.waiting

\* C27: use_state, use_effect or use_async called while no render context is
\* active raises ValueError at once and changes nothing else: no state slot
\* is read or written, no update applied, no setup or cleanup called, no
\* Task started or cancelled.
C27_HookOutsideRenderRaises ==
    [][(~hook.context /\ hook'.called \in HookNames /\ hook' # hook) =>
          hook' = [hook EXCEPT !.called = hook'.called, !.raised = "ValueError"]]_vars

\* use_state was called between two renders, an update being queued
C27_Witness ==
    /\ ~hook.context
    /\ hook.mounted
    /\ hook.called = "use_state"
    /\ hook.raised = "ValueError"
    /\ hook.updaters # <<>>

(***************************************************************************)
(* The marks of a pass (need_qt_command_reissue), checked under Spec       *)
(***************************************************************************)
\* The BaseComponents a pass reconciled: they had their list of children in
\* _component_to_rendering before the pass, and the pass rendered them.
Reconciled ==
    {p \in Ids : pass.c2r[p].in /\ pass.c2r[p].one = NoId /\ c2r[p].in
                   /\ p \in pass.rendered}
\* the children a reconciled parent kept, and those it took new
ReusedBy(p) == SeqSet(c2r[p].list) \cap SeqSet(pass.c2r[p].list)
FreshIn(p) == SeqSet(c2r[p].list) \ SeqSet(pass.c2r[p].list)
\* the component or something it rendered is marked
MarkedBeneath(c) ==
    c2q[c].in /\ \E d \in TreeIds(c2q[c].tree) \cup {c} : pass.dirty[d] = "True"

\* C28: in a pass that did not raise, a BaseComponent that was reconciled
\* and kept a child that is marked dirty, or has something marked dirty in
\* what it rendered, is marked dirty too.
C28_DirtyReusedChildMarksParent ==
    PassDone =>
        \A p \in Reconciled :
            (\E c \in ReusedBy(p) : MarkedBeneath(c)) => pass.dirty[p] = "True"

\* a parent of two children kept both, no child of it is new, and one of
\* the two was rendered again for a new prop
C28_Witness ==
    /\ PassDone
    /\ pass.op = "set_state"
    /\ \E p \in Reconciled :
          /\ Len(c2r[p].list) = 2
          /\ FreshIn(p) = {}
          /\ \E c \in ReusedBy(p) : c \in pass.changed /\ pass.dirty[c] = "True"
          /\ \E c \in ReusedBy(p) : pass.dirty[c] = "False"
          /\ pass.dirty[p] = "True"

\* C29: in a pass that did not raise, every BaseComponent the pass mounted
\* is marked dirty, and every BaseComponent that was reconciled and took a
\* new instance among its children is marked dirty.
C29_MountAndFreshChildMarkDirty ==
    PassDone =>
        /\ \A c \in pass.mounted :
              (IsBase(comp[c].cls) /\ c2r[c].in) => pass.dirty[c] = "True"
        /\ \A p \in Reconciled : FreshIn(p) # {} => pass.dirty[p] = "True"

(***************************************************************************)
(* Positional keys (checked under Spec)                                    *)
(***************************************************************************)
\* the children of the View as Comp.render() built them in the last pass
Built == pass.comp[CompId].n

\* C30: a reconciliation by key never fails for want of a key: whatever the
\* lengths of the old and the new list of children, every new child without
\* an explicit key has the key "KEY" + its index when it is matched, and a
\* child with an explicit key keeps it.
C30_KeyedPathAssignsPositionalKeys ==
    (pass.op = "set_state" /\ pass.target = CompId) =>
        /\ pass.raised # "AttributeError"
        /\ \A j \in 1..Len(pass.keyed) :
              Len(pass.keyed[j].new) = Len(Built) =>
                  \A i \in 1..Len(Built) :
                      pass.keyed[j].new[i].key =
                          IF Built[i].key # NoAttr THEN Built[i].key
                          ELSE Some(PosKey(i - 1))

(***************************************************************************)
(* The commands of a pass (checked under Spec)                             *)
(***************************************************************************)
\* the tree recorded for the component the last pass was asked to render,
\* its nodes, and the components the pass issued a command for
PassTree == c2q[pass.target].tree
RECURSIVE Nodes(_)
Nodes(tree) ==
    {tree} \cup UNION {Nodes(tree.children[i]) : i \in 1..Len(tree.children)}
Commanded == SeqSet(pass.commands)

\* C31: the commands a pass generates are commands of nodes of the tree it
\* rendered, and a node contributes its own commands only if its component
\* is marked dirty in the render context of the pass: a component the pass
\* never marked, or marked not dirty last, contributes none.
C31_OwnCommandsOnlyIfMarkedDirty ==
    PassDone =>
        /\ Commanded \subseteq TreeIds(PassTree)
        /\ \A d \in TreeIds(PassTree) :
              pass.dirty[d] # "True" => d \notin Commanded
\* a pass issued commands, and its tree holds a component it marked not
\* dirty and a component it never marked
C31_Witness ==
    /\ PassDone
    /\ pass.commands # <<>>
    /\ \E d \in TreeIds(PassTree) : pass.dirty[d] = "False" /\ d \notin Commanded
    /\ \E d \in TreeIds(PassTree) : pass.dirty[d] = "unset" /\ d \notin Commanded

\* every command of a comes before every command of b
Precedes(a, b) ==
    \A i, j \in 1..Len(pass.commands) :
        (pass.commands[i] = a /\ pass.commands[j] = b) => i < j

\* C32: in the commands of a pass the commands of every node beneath a
\* node come before the node's own, and the commands beneath one child come
\* before those beneath a later child of the same node.
C32_CommandsInPostOrder ==
    PassDone =>
        \A t \in Nodes(PassTree) :
            \A i \in 1..Len(t.children) :
                /\ \A d \in TreeIds(t.children[i]) : Precedes(d, t.component)
                /\ \A j \in (i + 1)..Len(t.children) :
                      \A d \in TreeIds(t.children[i]), e \in TreeIds(t.children[j]) :
                          Precedes(d, e)
\* a pass issued commands for a node and for two of its children
C32_Witness ==
    /\ PassDone
    /\ \E t \in Nodes(PassTree) :
          /\ t.component \in Commanded
          /\ Len(t.children) = 2
          /\ t.children[1].component \in Commanded
          /\ t.children[2].component \in Commanded

(***************************************************************************)
(* The rendering of a composite (checked under Spec)                       *)
(***************************************************************************)
\* the composites the last pass rendered, the class of what render()
\* returned for one of them, and what was recorded for it before the pass
RenderedComposites ==
    {c \in pass.rendered : comp[c].cls \in ItemClasses \cup {"Comp"}}
ReturnedClass(c) ==
    IF comp[c].cls = "Comp" THEN namespace["View"]
    ELSE namespace[IF comp[c].s = 0 THEN "Label" ELSE "Button"]
OldRendering(c) == pass.c2r[c].one
\* the instance has the props render() gave: the prop of an Item's
\* rendering, and as the children of Comp's View one child of the class
\* and the prop of every child built
HasReturnedProps(c, r) ==
    IF comp[c].cls = "Comp"
    THEN /\ Len(ChildrenOf(comp, r)) = Len(comp[c].n)
         /\ \A i \in 1..Len(comp[c].n) :
               /\ comp[ChildrenOf(comp, r)[i]].cls = namespace[comp[c].n[i].cls]
               /\ PropsOf(comp, ChildrenOf(comp, r)[i]).val = comp[c].n[i].val
    ELSE PropsOf(comp, r).val = PropsOf(comp, c).val
MountedFresh(r) == r \in pass.mounted /\ pass.comp[r].cls = "Free"

\* C33: in a pass that did not raise, a composite whose render() returned a
\* component of the class of its previous rendering keeps that instance as
\* its rendering, with the props of what was returned; when the class is
\* another, or there was no rendering, the returned component is mounted in
\* the pass and is the rendering.
C33_CompositeKeepsSameClassRendering ==
    PassDone =>
        \A c \in RenderedComposites :
            /\ c2r[c].in
            /\ comp[c2r[c].one].cls = ReturnedClass(c)
            /\ HasReturnedProps(c, c2r[c].one)
            /\ IF pass.c2r[c].in /\ pass.comp[OldRendering(c)].cls = ReturnedClass(c)
               THEN c2r[c].one = OldRendering(c) /\ ~MountedFresh(c2r[c].one)
               ELSE MountedFresh(c2r[c].one)
\* a pass in which Comp kept its View, with another number of children, and
\* an Item without a rendering had its Label mounted
C33_Witness ==
    /\ PassDone
    /\ CompId \in RenderedComposites
    /\ c2r[CompId].one = OldRendering(CompId)
    /\ Len(ChildrenOf(pass.comp, OldRendering(CompId)))
          # Len(ChildrenOf(comp, OldRendering(CompId)))
    /\ \E c \in RenderedComposites :
          ~pass.c2r[c].in /\ MountedFresh(c2r[c].one)
\* a pass in which an Item returned a component of another class than its
\* rendering had
ReplacedRendering ==
    /\ PassDone
    /\ \E c \in RenderedComposites :
          /\ pass.c2r[c].in
          /\ pass.comp[OldRendering(c)].cls # ReturnedClass(c)
          /\ c2r[c].one # OldRendering(c)

(***************************************************************************)
(* One old child and one new child (checked under Spec)                    *)
(***************************************************************************)
\* Comp.set_state gave the View, which had one child, one child again
SingleChildPass ==
    /\ pass.op = "set_state" /\ pass.target = CompId /\ pass.raised = NoError
    /\ Len(OldSiblings) = 1
    /\ Len(Built) = 1
OnlyChild == c2r[OldView].list[1]

\* C34: when the old and the new list of children of a parent both have one
\* element, the old instance is the parent's child after the pass exactly
\* when the new child has its class, whatever the keys of the two; otherwise
\* the child is the new one, mounted in the pass.
C34_SingleChildReusedIffSameClass ==
    SingleChildPass =>
        /\ Len(c2r[OldView].list) = 1
        /\ (OnlyChild = OldSiblings[1])
              <=> (pass.comp[OldSiblings[1]].cls = namespace[Built[1].cls])
        /\ OnlyChild # OldSiblings[1] =>
              /\ MountedFresh(OnlyChild)
              /\ comp[OnlyChild].cls = namespace[Built[1].cls]
              /\ comp[OnlyChild]._key = Built[1].key
\* the one old child was kept for a new child of its class with another key
C34_Witness ==
    /\ SingleChildPass
    /\ OnlyChild = OldSiblings[1]
    /\ pass.comp[OldSiblings[1]]._key # Built[1].key
    /\ pass.comp[OldSiblings[1]]._key # NoAttr
    /\ Built[1].key # NoAttr
\* the one old child made way for a new child of another class with its key
SameKeyOtherClass ==
    /\ SingleChildPass
    /\ OnlyChild # OldSiblings[1]
    /\ pass.comp[OldSiblings[1]]._key = Built[1].key

(***************************************************************************)
(* The two maps of the app (checked under Spec and SwapSpec)               *)
(***************************************************************************)
\* C35: when a render raised in a pass, _component_to_rendering and
\* _component_to_qt_rendering are what they were before the pass: nothing
\* the pass mounted, replaced or rendered again stays recorded.
C35_FailedPassRestoresMaps ==
    PassFailed => (c2r = pass.c2r /\ c2q = pass.c2q)

\* the keys of a map
Keys(m) == {c \in Ids : m[c].in}
\* the children and the rendering recorded for the keys of
\* _component_to_rendering
Recorded == UNION {SeqSet(SubComponents(c2r[p])) : p \in Keys(c2r)}

\* C36: after a pass and after a hot swap that did not raise, the two maps
\* have the same keys, and every component recorded as a child or as the
\* rendering of a key is a key of both maps.
C36_MapsAgreeAndAreClosed ==
    PassDone =>
        /\ Keys(c2r) = Keys(c2q)
        /\ Recorded \subseteq Keys(c2r) \cap Keys(c2q)

(***************************************************************************)
(* Commands and failed renders (checked under Spec)                        *)
(***************************************************************************)
\* C37: a pass in which a render raised executes no command: commands are
\* generated and executed only after every component of the request has
\* been rendered.
C37_NoCommandWhenRenderRaises ==
    pass.raised # NoError => pass.commands = <<>>
\* a render raised after the pass had marked dirty a component of the tree
\* recorded for the component it was asked to render
C37_Witness ==
    /\ PassFailed
    /\ c2q[pass.target].in
    /\ \E d \in TreeIds(PassTree) : pass.dirty[d] = "True"
    /\ pass.commands = <<>>
====
